---- MODULE Spec2Model ----
(***************************************************************************)
(* Model of the time-stepping engine of soleimani_et_al_2009.cc:           *)
(* Heat_Pipe<dim>::Heat_Pipe (phase flags), Heat_Pipe<dim>::run (time      *)
(* loop, Picard loop, phase switches, time-step update, commit) and the    *)
(* state run() reads from calculate_mass_balance_ratio, the assemblers and *)
(* the solvers.                                                            *)
(*                                                                         *)
(* Four specifications share the variables.  Spec is main(): construction, *)
(* initial_condition and run().  SpecHydraulics calls the member functions *)
(* of Hydraulic_Properties on their own, SpecRefine calls refine_grid on a *)
(* mesh of one to four cells, SpecTransportCell runs the velocity and      *)
(* stabilisation part of assemble_system_transport for one cell.           *)
(*                                                                         *)
(* Arithmetic.  The program computes in double precision.  Here            *)
(*  - times (time, time_step, milestone_time, ...) are integers counting   *)
(*    ticks of 1/TimeScale second; TimeScale is a power of two large       *)
(*    enough that every halving the bounds allow is exact;                 *)
(*  - a relative error is the exact fraction [num, den]; den = 0 stands    *)
(*    for the inf/NaN a division by a zero norm produces, and compares     *)
(*    false with every threshold, as IEEE comparisons do;                  *)
(*  - pressures are integers in 0.01 cm, water flows integers in 1e-6      *)
(*    cm3/s, concentrations integers in the unit of the seeded biomass.    *)
(* What the finite-element services return (the solution of a linear       *)
(* system, the boundary flows an assembly integrates) is drawn from small  *)
(* sets.                                                                   *)
(***************************************************************************)
EXTENDS Integers, Sequences, FiniteSets, TLC

\* ------------------------------------------------------------------ bounds
\* parameters.timestep_number_max: the time loop runs timestep_number = 1 .. max-1
MaxTimestepNumber == 3
\* stall recoveries allowed within one time step
MaxStalls == 1
\* Picard passes allowed in one time step outside the transport phase (no cap in the code)
MaxPasses == 3

\* ticks per second
TimeScale == 2 ^ (MaxStalls * MaxTimestepNumber)

\* mesh nodes: node 1 carries the point the top pressure is read at
Nodes == 1 .. 2

VARIABLES
  parameters,                      \* the parsed parameter file
  checkpoint_files,                \* the state_<initial_state>_*.ph files found at start-up
  pc,                              \* position in main / Heat_Pipe::run
  exit_status,                     \* what main returned: "none" while it runs
  thrown,                          \* the exception that ended the run, "none" if none
  transient_drying, transient_saturation, transient_transport,
  time_step, time, timestep_number,
  milestone_time, time_for_dry_conditions, time_for_saturated_conditions,
  figure_count, redefine_time_step,
  iteration, step, remain_in_loop,
  relative_error_flow, relative_error_transport, old_norm_transport,
  solution_flow_new_iteration, solution_flow_old_iteration, old_solution_flow,
  solution_transport, old_solution_transport,
  new_nodal_biomass_concentration, old_nodal_biomass_concentration,
  new_nodal_biomass_fraction, old_nodal_biomass_fraction,
  new_nodal_total_moisture_content, old_nodal_total_moisture_content,
  new_nodal_free_moisture_content, old_nodal_free_moisture_content,
  new_nodal_hydraulic_conductivity, old_nodal_hydraulic_conductivity,
  new_nodal_specific_moisture_capacity, old_nodal_specific_moisture_capacity,
  flow_at_top, flow_at_bottom,
  nutrient_flow_at_top, nutrient_flow_at_bottom,
  nutrients_in_domain_current, nutrients_in_domain_previous,
  cumulative_flow_at_top, cumulative_flow_at_bottom,
  refine_indicator,                \* argument of this step's refine_grid call
  h_transitions,                   \* history: phase switches fired in this time step
  h_stalls,                        \* history: stall recoveries in this time step
  h_passes,                        \* history: Picard passes run in this time step
  h_step_begin,                    \* history: the clock, the phase and the totals at the step's start
  h_loop_exit,                     \* history: time_step when the Picard loop exited
  h_updates,                       \* history: time-step updates run in this time step
  h_refinements,                   \* history: mesh adaptations executed in this time step
  h_calls,                         \* history: the calls of the last Picard pass, in order
  call,                            \* Hydraulic_Properties: the member function called and its arguments
  returned,                        \* Hydraulic_Properties: what that call returned or threw
  triangulation,                   \* the vertices of the active cells, in ascending order
  sparsity_pattern,                \* the pairs of degrees of freedom the matrices couple
  repeated_points                  \* vertex |-> number of active cells it belongs to

phase_vars == <<transient_drying, transient_saturation, transient_transport>>
clock_vars == <<time_step, time, timestep_number>>
mile_vars == <<milestone_time, time_for_dry_conditions, time_for_saturated_conditions,
               figure_count>>
loop_vars == <<iteration, step, remain_in_loop, relative_error_flow,
               relative_error_transport, old_norm_transport>>
flow_vars == <<solution_flow_new_iteration, solution_flow_old_iteration,
               flow_at_top, flow_at_bottom>>
new_nodal_vars == <<new_nodal_biomass_fraction, new_nodal_total_moisture_content,
                    new_nodal_free_moisture_content, new_nodal_hydraulic_conductivity,
                    new_nodal_specific_moisture_capacity>>
old_vars == <<old_solution_flow, old_solution_transport,
              old_nodal_biomass_concentration, old_nodal_biomass_fraction,
              old_nodal_total_moisture_content, old_nodal_free_moisture_content,
              old_nodal_hydraulic_conductivity, old_nodal_specific_moisture_capacity>>
nutrient_vars == <<nutrient_flow_at_top, nutrient_flow_at_bottom,
                   nutrients_in_domain_current>>
cumulative_vars == <<nutrients_in_domain_previous, cumulative_flow_at_top,
                     cumulative_flow_at_bottom>>
hist_vars == <<h_transitions, h_stalls, h_passes, h_step_begin, h_loop_exit, h_updates,
               h_refinements, h_calls>>
main_vars == <<parameters, checkpoint_files, exit_status, thrown>>
hydraulic_vars == <<call, returned>>
mesh_vars == <<triangulation, sparsity_pattern, repeated_points>>

vars == <<main_vars, pc, phase_vars, clock_vars, mile_vars, redefine_time_step,
          loop_vars, flow_vars, new_nodal_vars, old_vars, nutrient_vars, cumulative_vars,
          solution_transport, new_nodal_biomass_concentration, refine_indicator,
          hist_vars, hydraulic_vars, mesh_vars>>

\* ------------------------------------------------------------ arithmetic
Abs(x) == IF x < 0 THEN -x ELSE x

\* Vector<double>::norm_sqr
norm_sqr(v) == v[1] * v[1] + v[2] * v[2]

\* a / b as a fraction; b = 0 gives the inf/NaN marker
Frac(a, b) == [num |-> a, den |-> b]

\* frac < n/d and frac <= n/d for num, den >= 0 (false for inf/NaN)
\* (num * d < n * den, written with a quotient so that no product leaves 32 bits)
FracLess(f, n, d) == f.den > 0 /\ f.num <= (n * f.den - 1) \div d
FracLeq(f, n, d) == f.den > 0 /\ f.num <= (n * f.den) \div d

\* floor of the square root, by Newton's iteration downwards from r >= sqrt(x)
RECURSIVE ISqrtIter(_, _)
ISqrtIter(x, r) ==
  IF r * r <= x THEN r ELSE ISqrtIter(x, (r + x \div r) \div 2)

ISqrt(x) == ISqrtIter(x, IF x < 2 ^ 20 THEN 2 ^ 10 ELSE 2 ^ 12)

\* fixed-point one: saturations and exponents are held in thousandths
Unit == 10 * 100

\* ------------------------------------------------- parameter file inputs
InitialStates == {"default", "final", "dry", "saturated", "no_drying"}

\* the initial states that resume from checkpoint files
ResumedStates == {"dry", "saturated", "final"}

ParameterFiles ==
  [ initial_state : InitialStates \cup {"flooded"},
    hydraulic_properties : {"van_genuchten_1980", "haverkamp_et_al_1977", "brooks_corey_1964"},
    relative_permeability_model : {"soleimani", "kozeny_carman"},
    moisture_transport_equation : {"head", "theta"},
    saturated_hydraulic_conductivity : {1000},
    time_step : {100 * TimeScale},
    timestep_number_max : {MaxTimestepNumber},
    test_function_transport : BOOLEAN,
    coupled_transport : BOOLEAN,
    richards_fixed_at_top : BOOLEAN,
    richards_bottom_fixed_value : {0},
    domain_size : {10000},
    initial_condition_homogeneous_flow : {-5000},
    initial_condition_homogeneous_transport : {1000},
    initial_condition_homogeneous_bacteria : {1000 * 1000},
    biomass_dry_density : {4000},
    output_frequency_transport : {2 * TimeScale},
    yield_coefficient : {2},
    maximum_substrate_use_rate : {2},
    half_velocity_constant : {1000 * 1000},
    decay_rate : {1},
    moisture_content_saturation : {400},
    moisture_content_residual : {100},
    van_genuchten_alpha : {2},
    dispersivity_longitudinal : {1},
    effective_diffusion_coefficient : {1} ]

\* the three files of a checkpoint and what start-up can find of each: no
\* file, a file holding exactly one vector block, a file with more behind it
CheckpointFields == {"pressure", "substrate", "bacteria"}
CheckpointFileStates == {"absent", "complete", "trailing"}

\* the directories a resumed run is started in: every file complete, one
\* file missing, or every file with data behind its block; the last is drawn
\* for the "dry" checkpoint, whose branch the other two repeat line for line
CheckpointDirectories(initial_state) ==
  {[f \in CheckpointFields |-> "complete"]}
    \cup {[f \in CheckpointFields |-> IF f = g THEN "absent" ELSE "complete"] :
            g \in CheckpointFields}
    \cup (IF initial_state = "dry" THEN {[f \in CheckpointFields |-> "trailing"]}
          ELSE {})

\* Heat_Pipe members copied from the parameter file by the constructor
test_transport == parameters.test_function_transport
coupled_transport == parameters.coupled_transport
timestep_number_max == parameters.timestep_number_max
solve_flow == TRUE

\* what the linear solvers can return
FlowSolutions == {<<-9996, 0>>, <<-9997, 0>>}
TransportSolutions == {<<1, 1>>, <<2, 1>>}
\* what a checkpoint file can hold
CheckpointPressures == {<<-9997, 0>>}
CheckpointSubstrates == {<<1, 1>>}
CheckpointBiomass == {<<3000, 2000>>}
\* <<flow_at_top, flow_at_bottom>> an assembly of the flow system can integrate
BoundaryFlows == {<<990, -1000>>, <<980, -1000>>}
\* <<nutrient_flow_at_top, nutrient_flow_at_bottom, nutrients_in_domain_current>>
\* an assembly of the transport system can integrate
NutrientFlows == {<<3, -2, 50>>}
\* what can go wrong inside a Picard pass besides the configuration: a NaN or
\* negative velocity, Peclet number or tau, or a linear solver that does not
\* converge
PassFaults == {"none", "velocity", "solve_system_flow", "solve_system_transport"}

\* ------------------------------------------------- Hydraulic_Properties
\* Each member function is modelled by two operators: <name>_error is the
\* diagnostic of the throw its if/else chain reaches ("none" when it
\* returns), <name> is the value it returns.  Saturations, moisture contents
\* and relative permeabilities are in thousandths; van_genuchten_n = 2, so
\* van_genuchten_m = 1 - 1/n = 1/2.
type_of_hydraulic_properties == parameters.hydraulic_properties

\* the two diagnostics written before "throw -1"
EquationsNotImplemented == "Equations are not implemented"
PermeabilityModelNotImplemented == "Relative permeability model not implemented"

\* pow(x, 0.5) on thousandths
sqrt_fixed(x) == ISqrt(x * Unit)

\* pow(1. - pow(s, 1./m), m) with m = 1/2, on thousandths
mualem_term(s) == ISqrt(Unit * Unit - s * s)

\* pow(x, 2.) and pow(x, 3.) on thousandths
square_fixed(x) == (x * x) \div Unit
cube_fixed(x) == (((x * x) \div Unit) * x) \div Unit

\* the larger of two numbers
Max(a, b) == IF a > b THEN a ELSE b

\* |pressure_head| in whole cm
head_cm(pressure_head) == Abs(pressure_head) \div 100

get_specific_moisture_capacity_error ==
  IF type_of_hydraulic_properties = "haverkamp_et_al_1977" THEN "none"
  ELSE IF type_of_hydraulic_properties = "van_genuchten_1980" THEN "none"
  ELSE EquationsNotImplemented

\* mutant: the empirical family is let through, as it is for the capacity
get_effective_total_saturation_error_accepting_haverkamp ==
  IF type_of_hydraulic_properties = "haverkamp_et_al_1977" THEN "none"
  ELSE IF type_of_hydraulic_properties = "van_genuchten_1980" THEN "none"
  ELSE EquationsNotImplemented

get_effective_total_saturation_error ==
  IF type_of_hydraulic_properties = "van_genuchten_1980" THEN "none"
  ELSE EquationsNotImplemented

\* van Genuchten closed form: 1 / (1 + (alpha |h|)^2)^(1/2), alpha in 0.01/cm
get_effective_total_saturation(pressure_head) ==
  IF pressure_head >= 0 THEN Unit
  ELSE LET x == (parameters.van_genuchten_alpha * Abs(pressure_head)) \div 10
       IN (Unit * Unit) \div ISqrt(Unit * Unit + x * x)

\* haverkamp: alpha = 1.611E6 and beta = 3.96 (held as 4), |h| in cm;
\* van Genuchten: a head >= 0 is replaced by -0.01 cm first
get_specific_moisture_capacity(pressure_head) ==
  LET range == parameters.moisture_content_saturation - parameters.moisture_content_residual
  IN IF type_of_hydraulic_properties = "haverkamp_et_al_1977"
     THEN LET alpha == 1611000
              a == head_cm(pressure_head)
              sign == IF pressure_head < 0 THEN 1 ELSE -1
              share == (alpha * Unit) \div (alpha + a ^ 4)
          IN sign * range * ((4 * a ^ 3 * share) \div (alpha + a ^ 4))
     ELSE LET h == IF pressure_head >= 0 THEN -1 ELSE pressure_head
              x == (parameters.van_genuchten_alpha * Abs(h)) \div 10
          IN (parameters.van_genuchten_alpha * range
                * ((x * cube_fixed(get_effective_total_saturation(h))) \div Unit))
               \div Unit

get_actual_total_saturation_error == get_effective_total_saturation_error

get_actual_total_saturation(pressure_head) ==
  (Unit * parameters.moisture_content_residual) \div parameters.moisture_content_saturation
    + ((parameters.moisture_content_saturation - parameters.moisture_content_residual)
         * get_effective_total_saturation(pressure_head))
        \div parameters.moisture_content_saturation

\* mutant: the effective biomass saturation is not limited to 1
get_effective_biomass_saturation_unlimited(biomass_concentration, biomass_dry_density) ==
  (((Unit * biomass_concentration) \div biomass_dry_density)
     * parameters.moisture_content_saturation)
    \div (parameters.moisture_content_saturation - parameters.moisture_content_residual)

get_effective_biomass_saturation(biomass_concentration, biomass_dry_density) ==
  LET actual_biomass_saturation == (Unit * biomass_concentration) \div biomass_dry_density
      effective_biomass_saturation ==
        (actual_biomass_saturation * parameters.moisture_content_saturation)
          \div (parameters.moisture_content_saturation - parameters.moisture_content_residual)
  IN IF effective_biomass_saturation > Unit THEN Unit ELSE effective_biomass_saturation

get_actual_biomass_saturation(biomass_concentration, biomass_dry_density) ==
  (get_effective_biomass_saturation(biomass_concentration, biomass_dry_density)
     * (parameters.moisture_content_saturation - parameters.moisture_content_residual))
    \div parameters.moisture_content_saturation

get_effective_free_saturation_error == get_effective_total_saturation_error

get_effective_free_saturation(pressure_head, biomass_concentration, biomass_dry_density) ==
  LET effective_free_saturation ==
        get_effective_total_saturation(pressure_head)
          - get_effective_biomass_saturation(biomass_concentration, biomass_dry_density)
  IN IF effective_free_saturation <= 0 THEN 0 ELSE effective_free_saturation

PermeabilityModels == {"soleimani", "clement", "okubo_and_matsumoto", "vandevivere"}

\* mutant: the van Genuchten branch does not look at the model name
get_hydraulic_conductivity_error_by_family(relative_permeability_model) ==
  IF type_of_hydraulic_properties = "haverkamp_et_al_1977" THEN "none"
  ELSE IF type_of_hydraulic_properties = "van_genuchten_1980" THEN "none"
  ELSE EquationsNotImplemented

get_hydraulic_conductivity_error(relative_permeability_model) ==
  IF type_of_hydraulic_properties = "haverkamp_et_al_1977" THEN "none"
  ELSE IF type_of_hydraulic_properties = "van_genuchten_1980"
       THEN IF relative_permeability_model = "soleimani" THEN "none"
            ELSE IF relative_permeability_model = "clement" THEN "none"
            ELSE IF relative_permeability_model = "okubo_and_matsumoto" THEN "none"
            ELSE IF relative_permeability_model = "vandevivere" THEN "none"
            ELSE PermeabilityModelNotImplemented
  ELSE EquationsNotImplemented

\* exp(z) for z in thousandths, held to first order and never negative
exp_fixed(z) == IF Unit + z < 0 THEN 0 ELSE Unit + z

\* the "soleimani" formula, m = 1/2:
\* pow(Se, 0.5) * pow(pow(1 - pow(Sb, 2), 0.5) - pow(1 - pow(Se, 2), 0.5), 2.)
soleimani_permeability(effective_biomass_saturation, effective_total_saturation) ==
  (sqrt_fixed(effective_total_saturation)
     * square_fixed(mualem_term(effective_biomass_saturation)
                      - mualem_term(effective_total_saturation))) \div Unit

\* the "vandevivere" blend for a biovolume fraction below 1, with phi =
\* exp(-0.5 (fraction / 0.1)^2) and the plug conductivity 0.00025
vandevivere_permeability(biovolume_fraction, phi) ==
  (phi * square_fixed(Unit - biovolume_fraction)) \div Unit
    + ((Unit - phi)
         * ((250 * Unit)
              \div (250 + Unit * biovolume_fraction - biovolume_fraction \div 4)))
        \div Unit

\* biomass_concentration / biomass_dry_density
biovolume(biomass_concentration, biomass_dry_density) ==
  (Unit * biomass_concentration) \div biomass_dry_density

\* mutant: the effective total saturation is used as the head gives it
relative_permeability_without_raise(pressure_head, biomass_concentration, biomass_dry_density, relative_permeability_model) ==
  IF relative_permeability_model = "soleimani"
  THEN soleimani_permeability(
         get_effective_biomass_saturation(biomass_concentration, biomass_dry_density),
         get_effective_total_saturation(pressure_head))
  ELSE 0

\* the relative permeability of the van Genuchten branch; the effective total
\* saturation is first raised to the effective biomass saturation
relative_permeability(pressure_head, biomass_concentration, biomass_dry_density, relative_permeability_model) ==
  IF relative_permeability_model = "soleimani"
  THEN soleimani_permeability(
         get_effective_biomass_saturation(biomass_concentration, biomass_dry_density),
         Max(get_effective_total_saturation(pressure_head),
             get_effective_biomass_saturation(biomass_concentration,
                                              biomass_dry_density)))
  ELSE IF relative_permeability_model = "clement"
  \* the exponent 19/6 is an integer division: 3
  THEN IF biovolume(biomass_concentration, biomass_dry_density) < Unit
       THEN cube_fixed(Unit - biovolume(biomass_concentration, biomass_dry_density))
       ELSE 0
  ELSE IF relative_permeability_model = "okubo_and_matsumoto"
  THEN IF biovolume(biomass_concentration, biomass_dry_density) < Unit
       THEN square_fixed(Unit - biovolume(biomass_concentration, biomass_dry_density))
       ELSE 0
  ELSE IF biovolume(biomass_concentration, biomass_dry_density) < Unit
       THEN vandevivere_permeability(
              biovolume(biomass_concentration, biomass_dry_density),
              exp_fixed(-(50 * square_fixed(biovolume(biomass_concentration,
                                                      biomass_dry_density)))))
       ELSE 0

\* haverkamp: A = 1.175E6 and gamma = 4.74 (held as 19/4), |h| in cm, both
\* terms of the quotient divided by 1000
get_hydraulic_conductivity(pressure_head, biomass_concentration, biomass_dry_density, relative_permeability_model) ==
  IF type_of_hydraulic_properties = "haverkamp_et_al_1977"
  THEN LET a == head_cm(pressure_head)
           power == ((a ^ 4) \div 1000) * ISqrt(a) * ISqrt(ISqrt(a))
       IN (parameters.saturated_hydraulic_conductivity * 1175) \div (1175 + power)
  ELSE (parameters.saturated_hydraulic_conductivity
          * relative_permeability(pressure_head, biomass_concentration,
                                  biomass_dry_density, relative_permeability_model))
         \div Unit

get_moisture_content_total_error == get_effective_total_saturation_error

get_moisture_content_total(pressure_head) ==
  ((parameters.moisture_content_saturation - parameters.moisture_content_residual)
     * get_effective_total_saturation(pressure_head)) \div Unit
    + parameters.moisture_content_residual

get_moisture_content_free_error == get_effective_free_saturation_error

get_moisture_content_free(pressure_head, biomass_concentration, biomass_dry_density) ==
  ((parameters.moisture_content_saturation - parameters.moisture_content_residual)
     * get_effective_free_saturation(pressure_head, biomass_concentration,
                                     biomass_dry_density)) \div Unit
    + parameters.moisture_content_residual

\* ------------------------------------------ calculate_mass_balance_ratio
\* the Monod update of one node's biomass over a step of dt ticks, from the
\* previous time level's pressure, substrate and biomass
biomass_update(old_pressure, old_transport_value, old_biomass, dt) ==
  LET old_substrate == IF old_transport_value > 0 THEN old_transport_value ELSE 0
      effective_saturation_free ==
        get_effective_free_saturation(old_pressure, old_biomass,
                                      parameters.biomass_dry_density)
      uptake == effective_saturation_free * old_substrate
      rate == (parameters.yield_coefficient * parameters.maximum_substrate_use_rate * uptake)
                \div (uptake + parameters.half_velocity_constant \div 1000)
              - parameters.decay_rate
  IN (old_biomass * exp_fixed(rate * dt)) \div Unit

\* mutant: the update starts from the current iterates, not the old level
calculate_mass_balance_ratio_from_iterate(dt) ==
  [i \in Nodes |->
     IF transient_drying = FALSE
     THEN biomass_update(solution_flow_old_iteration[i], solution_transport[i],
                         new_nodal_biomass_concentration[i], dt)
     ELSE 0]

\* mutant: the biomass is updated in the drying phase as well
calculate_mass_balance_ratio_in_every_phase(dt) ==
  [i \in Nodes |->
     biomass_update(old_solution_flow[i], old_solution_transport[i],
                    old_nodal_biomass_concentration[i], dt)]

\* new_nodal_biomass_concentration after calculate_mass_balance_ratio() run
\* with step size dt: reinit to zero, then accumulated only when not drying
calculate_mass_balance_ratio(dt) ==
  [i \in Nodes |->
     IF transient_drying = FALSE
     THEN biomass_update(old_solution_flow[i], old_solution_transport[i],
                         old_nodal_biomass_concentration[i], dt)
     ELSE 0]

\* the other nodal fields calculate_mass_balance_ratio() rebuilds, from the
\* pressure iterate it reads (solution_flow_old_iteration) and the biomass it
\* has just computed; the mesh has one cell, so every node belongs to one cell
nodal_biomass_fraction(biomass) ==
  [i \in Nodes |-> (Unit * biomass[i]) \div parameters.biomass_dry_density]

nodal_hydraulic_conductivity(pressure, biomass) ==
  [i \in Nodes |->
     get_hydraulic_conductivity(pressure[i], biomass[i], parameters.biomass_dry_density,
                                parameters.relative_permeability_model)]

nodal_total_moisture_content(pressure) ==
  [i \in Nodes |-> get_moisture_content_total(pressure[i])]

nodal_free_moisture_content(pressure, biomass) ==
  [i \in Nodes |->
     get_moisture_content_free(pressure[i], biomass[i], parameters.biomass_dry_density)]

nodal_specific_moisture_capacity(pressure) ==
  [i \in Nodes |-> get_specific_moisture_capacity(pressure[i])]

\* mutant: only the last call of the vertex loop can throw
calculate_mass_balance_ratio_error_of_capacity == get_specific_moisture_capacity_error

\* the member function whose call is the first to throw at a vertex
calculate_mass_balance_ratio_thrower ==
  IF transient_drying = FALSE /\ get_effective_free_saturation_error # "none"
  THEN "get_effective_free_saturation"
  ELSE IF get_hydraulic_conductivity_error(parameters.relative_permeability_model) # "none"
  THEN "get_hydraulic_conductivity"
  ELSE IF get_moisture_content_total_error # "none" THEN "get_moisture_content_total"
  ELSE IF get_moisture_content_free_error # "none" THEN "get_moisture_content_free"
  ELSE "get_specific_moisture_capacity"

\* the first throw calculate_mass_balance_ratio() reaches at a vertex, in the
\* order of its calls
calculate_mass_balance_ratio_error ==
  IF transient_drying = FALSE /\ get_effective_free_saturation_error # "none"
  THEN get_effective_free_saturation_error
  ELSE IF get_hydraulic_conductivity_error(parameters.relative_permeability_model) # "none"
  THEN get_hydraulic_conductivity_error(parameters.relative_permeability_model)
  ELSE IF get_moisture_content_total_error # "none" THEN get_moisture_content_total_error
  ELSE IF get_moisture_content_free_error # "none" THEN get_moisture_content_free_error
  ELSE get_specific_moisture_capacity_error

\* --------------------------------------------------- Heat_Pipe::Heat_Pipe
\* mutant: the "final" state also raises the saturation flag
initial_phase_final_saturating(initial_state) ==
  IF initial_state = "default" THEN <<TRUE, FALSE, FALSE>>
  ELSE IF initial_state = "final" THEN <<TRUE, TRUE, FALSE>>
  ELSE IF initial_state = "dry" THEN <<FALSE, TRUE, FALSE>>
  ELSE IF initial_state = "saturated" THEN <<FALSE, FALSE, TRUE>>
  ELSE IF initial_state = "no_drying" THEN <<FALSE, TRUE, FALSE>>
  ELSE <<FALSE, FALSE, FALSE>>

\* mutant: "no_drying" is taken for "default" and starts in drying
initial_phase_no_drying_as_default(initial_state) ==
  IF initial_state \in {"default", "final", "no_drying"} THEN <<TRUE, FALSE, FALSE>>
  ELSE IF initial_state = "dry" THEN <<FALSE, TRUE, FALSE>>
  ELSE IF initial_state = "saturated" THEN <<FALSE, FALSE, TRUE>>
  ELSE <<FALSE, FALSE, FALSE>>

\* <<transient_drying, transient_saturation, transient_transport>> chosen by
\* the constructor; for any other initial state it throws with no flag set
initial_phase(initial_state) ==
  IF initial_state = "default" \/ initial_state = "final" THEN <<TRUE, FALSE, FALSE>>
  ELSE IF initial_state = "dry" THEN <<FALSE, TRUE, FALSE>>
  ELSE IF initial_state = "saturated" THEN <<FALSE, FALSE, TRUE>>
  ELSE IF initial_state = "no_drying" THEN <<FALSE, TRUE, FALSE>>
  ELSE <<FALSE, FALSE, FALSE>>

\* the members as the constructor initialises them, the phase flags aside
members_constructed ==
  /\ time_step = parameters.time_step
  /\ time = 0
  /\ timestep_number = 0
  /\ milestone_time = 0
  /\ time_for_dry_conditions = 0
  /\ time_for_saturated_conditions = 0
  /\ figure_count = 0
  /\ redefine_time_step = FALSE
  /\ iteration = 0
  /\ step = 0
  /\ remain_in_loop = TRUE
  /\ relative_error_flow = Frac(0, 1)
  /\ relative_error_transport = Frac(0, 1)
  /\ old_norm_transport = 0
  /\ solution_flow_new_iteration = <<0, 0>>
  /\ solution_flow_old_iteration = <<0, 0>>
  /\ old_solution_flow = <<0, 0>>
  /\ solution_transport = <<0, 0>>
  /\ old_solution_transport = <<0, 0>>
  /\ new_nodal_biomass_concentration = <<0, 0>>
  /\ old_nodal_biomass_concentration = <<0, 0>>
  /\ new_nodal_biomass_fraction = <<0, 0>>
  /\ old_nodal_biomass_fraction = <<0, 0>>
  /\ new_nodal_total_moisture_content = <<0, 0>>
  /\ old_nodal_total_moisture_content = <<0, 0>>
  /\ new_nodal_free_moisture_content = <<0, 0>>
  /\ old_nodal_free_moisture_content = <<0, 0>>
  /\ new_nodal_hydraulic_conductivity = <<0, 0>>
  /\ old_nodal_hydraulic_conductivity = <<0, 0>>
  /\ new_nodal_specific_moisture_capacity = <<0, 0>>
  /\ old_nodal_specific_moisture_capacity = <<0, 0>>
  /\ flow_at_top = 0
  /\ flow_at_bottom = 0
  /\ nutrient_flow_at_top = 0
  /\ nutrient_flow_at_bottom = 0
  /\ nutrients_in_domain_current = 0
  /\ nutrients_in_domain_previous = 0
  /\ cumulative_flow_at_top = 0
  /\ cumulative_flow_at_bottom = 0
  /\ refine_indicator = "none"
  /\ h_transitions = {}
  /\ h_stalls = 0
  /\ h_passes = 0
  /\ h_step_begin = [time_step |-> parameters.time_step, time |-> 0, timestep_number |-> 0,
                     drying |-> transient_drying,
                     cumulative_flow_at_top |-> 0, cumulative_flow_at_bottom |-> 0]
  /\ h_loop_exit = parameters.time_step
  /\ h_updates = 0
  /\ h_refinements = 0
  /\ h_calls = <<>>

\* no Hydraulic_Properties call under observation
NoCall == [function |-> "none", pressure_head |-> 0, biomass_concentration |-> 0,
           biomass_dry_density |-> 0, relative_permeability_model |-> "none"]
NoReturn == [thrown |-> "none", diagnostic |-> "none", value |-> 0]

\* ------------------------------------------------------------- the mesh
\* The domain is held as a line of cells between the vertices 0 .. GridSpan,
\* its degrees of freedom numbered along the line, one per vertex.
GridSpan == 4

\* the grid read_grid() builds: one cell
CoarseGrid == <<0, GridSpan>>

\* the vertex sequences bisection of cells can produce from the coarse grid
Grids == {<<0, 4>>, <<0, 2, 4>>, <<0, 1, 2, 4>>, <<0, 2, 3, 4>>, <<0, 1, 2, 3, 4>>}

\* the vertices of a grid as a set
vertices(grid) == {grid[i] : i \in 1 .. Len(grid)}

\* the degree of freedom at vertex x
dof_at(grid, x) == CHOOSE i \in 1 .. Len(grid) : grid[i] = x

\* execute_coarsening_and_refinement: the grids one adaptation can leave, by
\* bisecting flagged cells and merging flagged pairs of sibling cells; no
\* cell flagged leaves the grid as it is
adapted_grids(grid) ==
  {g \in Grids :
     /\ \A x \in vertices(g) \ vertices(grid) :
          \E i \in 1 .. Len(grid) - 1 : grid[i] + grid[i + 1] = 2 * x
     /\ \A x \in vertices(grid) \ vertices(g) :
          LET i == dof_at(grid, x)
          IN /\ grid[i - 1] + grid[i + 1] = 2 * x
             /\ grid[i - 1] \in vertices(g)
             /\ grid[i + 1] \in vertices(g)}

\* Vector<double>::reinit(n): n zeros
reinit(n) == [i \in 1 .. n |-> 0]

\* DoFTools::make_sparsity_pattern: the pairs of degrees of freedom of a cell
make_sparsity_pattern(grid) ==
  {<<i, j>> \in (1 .. Len(grid)) \X (1 .. Len(grid)) : i - j \in {-1, 0, 1}}

\* the loop over active cells and their vertices that counts, in
\* repeated_points, the cells each vertex belongs to, on top of the counts
\* the map holds when the loop starts
count_repeated_points(grid, counts) ==
  [x \in DOMAIN counts \cup vertices(grid) |->
     (IF x \in DOMAIN counts THEN counts[x] ELSE 0)
       + Cardinality({i \in 1 .. Len(grid) - 1 : x \in {grid[i], grid[i + 1]}})]

\* repeated_points.clear()
cleared_points == [x \in {} |-> 0]

\* SolutionTransfer::interpolate of one vector: a vertex that stays keeps
\* its value, a new vertex gets the mean of the ends of the cell bisected
interpolate(vector, old_grid, new_grid) ==
  [i \in 1 .. Len(new_grid) |->
     IF new_grid[i] \in vertices(old_grid)
     THEN vector[dof_at(old_grid, new_grid[i])]
     ELSE LET left == CHOOSE j \in 1 .. Len(old_grid) - 1 :
                        old_grid[j] < new_grid[i] /\ new_grid[i] < old_grid[j + 1]
          IN (vector[left] + vector[left + 1]) \div 2]

\* mutant: main has no handler for what is not a std::exception and the
\* thrown int is taken for a normal return
main_return_without_catch_all(exception) ==
  IF exception = "SolverControl::NoConvergence" THEN "1" ELSE "0"

\* what main returns: 1 from either handler, 0 when run() has returned
main_return(exception) ==
  IF exception = "none" THEN "0" ELSE "1"

\* main after "Heat_Pipe<2> laplace_problem(argc, argv)": the object is
\* constructed, or the constructor has thrown 1 and main has returned 1
Init ==
  /\ parameters \in ParameterFiles
  /\ checkpoint_files \in
       IF parameters.initial_state \in ResumedStates
       THEN CheckpointDirectories(parameters.initial_state)
       ELSE {[f \in CheckpointFields |-> "absent"]}
  /\ pc = IF parameters.initial_state \in InitialStates THEN "initial_condition"
          ELSE "aborted"
  /\ exit_status = IF parameters.initial_state \in InitialStates THEN "none"
                   ELSE main_return("throw 1")
  /\ thrown = IF parameters.initial_state \in InitialStates THEN "none" ELSE "throw 1"
  /\ transient_drying = initial_phase(parameters.initial_state)[1]
  /\ transient_saturation = initial_phase(parameters.initial_state)[2]
  /\ transient_transport = initial_phase(parameters.initial_state)[3]
  /\ members_constructed
  /\ call = NoCall
  /\ returned = NoReturn
  /\ triangulation = CoarseGrid
  /\ sparsity_pattern = make_sparsity_pattern(CoarseGrid)
  /\ repeated_points = count_repeated_points(CoarseGrid, cleared_points)

\* an exception leaves run(): the stack is unwound, the Heat_Pipe object is
\* destroyed and main's handler returns 1.  The phase flags are kept as the
\* record of the phase the run was in; every other member goes back to its
\* constructed value.
unwind(exception) ==
  /\ UNCHANGED <<parameters, checkpoint_files, phase_vars, mesh_vars>>
  /\ pc' = "aborted"
  /\ exit_status' = main_return(exception)
  /\ thrown' = exception
  /\ time_step' = parameters.time_step
  /\ time' = 0
  /\ timestep_number' = 0
  /\ milestone_time' = 0
  /\ time_for_dry_conditions' = 0
  /\ time_for_saturated_conditions' = 0
  /\ figure_count' = 0
  /\ redefine_time_step' = FALSE
  /\ iteration' = 0
  /\ step' = 0
  /\ remain_in_loop' = TRUE
  /\ relative_error_flow' = Frac(0, 1)
  /\ relative_error_transport' = Frac(0, 1)
  /\ old_norm_transport' = 0
  /\ solution_flow_new_iteration' = <<0, 0>>
  /\ solution_flow_old_iteration' = <<0, 0>>
  /\ old_solution_flow' = <<0, 0>>
  /\ solution_transport' = <<0, 0>>
  /\ old_solution_transport' = <<0, 0>>
  /\ new_nodal_biomass_concentration' = <<0, 0>>
  /\ old_nodal_biomass_concentration' = <<0, 0>>
  /\ new_nodal_biomass_fraction' = <<0, 0>>
  /\ old_nodal_biomass_fraction' = <<0, 0>>
  /\ new_nodal_total_moisture_content' = <<0, 0>>
  /\ old_nodal_total_moisture_content' = <<0, 0>>
  /\ new_nodal_free_moisture_content' = <<0, 0>>
  /\ old_nodal_free_moisture_content' = <<0, 0>>
  /\ new_nodal_hydraulic_conductivity' = <<0, 0>>
  /\ old_nodal_hydraulic_conductivity' = <<0, 0>>
  /\ new_nodal_specific_moisture_capacity' = <<0, 0>>
  /\ old_nodal_specific_moisture_capacity' = <<0, 0>>
  /\ flow_at_top' = 0
  /\ flow_at_bottom' = 0
  /\ nutrient_flow_at_top' = 0
  /\ nutrient_flow_at_bottom' = 0
  /\ nutrients_in_domain_current' = 0
  /\ nutrients_in_domain_previous' = 0
  /\ cumulative_flow_at_top' = 0
  /\ cumulative_flow_at_bottom' = 0
  /\ refine_indicator' = "none"
  /\ h_transitions' = {}
  /\ h_stalls' = 0
  /\ h_passes' = 0
  /\ h_step_begin' = [time_step |-> parameters.time_step, time |-> 0, timestep_number |-> 0,
                     drying |-> transient_drying,
                     cumulative_flow_at_top |-> 0, cumulative_flow_at_bottom |-> 0]
  /\ h_loop_exit' = parameters.time_step
  /\ h_updates' = 0
  /\ h_refinements' = 0
  /\ h_calls' = <<>>

\* an exception thrown by run()'s own code or by a linear solver
abort(exception) ==
  /\ unwind(exception)
  /\ UNCHANGED hydraulic_vars

\* "throw -1" out of a Hydraulic_Properties member function called by
\* calculate_mass_balance_ratio(): call and returned keep the call that threw
abort_in_call(function, diagnostic) ==
  /\ unwind("throw -1")
  /\ call' = [NoCall EXCEPT !.function = function]
  /\ returned' = [thrown |-> "throw -1", diagnostic |-> diagnostic, value |-> 0]

\* ------------------------------------------ Heat_Pipe::initial_condition
\* "file.close(); if (file.is_open()) throw 3;": the stream is closed
\* whatever the file held and however much of it block_read consumed
is_open_after_close(file_state) == FALSE

\* read_grid(); setup_system(); initial_condition(); and the time loop's
\* initialisation timestep_number = 1
initial_condition ==
  /\ pc = "initial_condition"
  /\ IF parameters.initial_state \in {"default", "no_drying"}
     THEN IF calculate_mass_balance_ratio_error # "none"
          THEN abort_in_call(calculate_mass_balance_ratio_thrower,
                             calculate_mass_balance_ratio_error)
          ELSE LET h == parameters.initial_condition_homogeneous_flow
                   c == parameters.initial_condition_homogeneous_transport \div 1000
                   pressure == <<h, h>>
                   \* calculate_mass_balance_ratio() on a zero old biomass
                   biomass == <<0, 0>>
               IN /\ old_solution_flow' = pressure
                  /\ solution_flow_new_iteration' = pressure
                  /\ solution_flow_old_iteration' = pressure
                  /\ old_solution_transport' = <<c, c>>
                  /\ solution_transport' = <<c, c>>
                  /\ old_nodal_biomass_concentration' = biomass
                  /\ new_nodal_biomass_concentration' = biomass
                  /\ new_nodal_biomass_fraction' = nodal_biomass_fraction(biomass)
                  /\ new_nodal_hydraulic_conductivity' =
                       nodal_hydraulic_conductivity(pressure, biomass)
                  /\ new_nodal_total_moisture_content' =
                       nodal_total_moisture_content(pressure)
                  /\ new_nodal_free_moisture_content' =
                       nodal_free_moisture_content(pressure, biomass)
                  /\ new_nodal_specific_moisture_capacity' =
                       nodal_specific_moisture_capacity(pressure)
                  /\ old_nodal_biomass_fraction' = new_nodal_biomass_fraction'
                  /\ old_nodal_total_moisture_content' = new_nodal_total_moisture_content'
                  /\ old_nodal_free_moisture_content' = new_nodal_free_moisture_content'
                  /\ old_nodal_hydraulic_conductivity' = new_nodal_hydraulic_conductivity'
                  /\ old_nodal_specific_moisture_capacity' =
                       new_nodal_specific_moisture_capacity'
                  /\ timestep_number' = 1
                  /\ pc' = "timestep_loop"
                  /\ UNCHANGED <<main_vars, phase_vars, time_step, time, mile_vars,
                                 redefine_time_step, loop_vars, flow_at_top, flow_at_bottom,
                                 nutrient_vars, cumulative_vars, refine_indicator,
                                 hist_vars, hydraulic_vars, mesh_vars>>
     \* "if (!file.is_open()) throw 2;" for each file in turn; the test after
     \* file.close() finds the stream closed whatever the file held
     ELSE IF \E f \in CheckpointFields : checkpoint_files[f] = "absent"
          THEN abort("throw 2")
          ELSE IF \E f \in CheckpointFields : is_open_after_close(checkpoint_files[f])
          THEN abort("throw 3")
          ELSE \E p \in CheckpointPressures, c \in CheckpointSubstrates,
                  b \in CheckpointBiomass :
                  /\ old_solution_flow' = p
                  /\ solution_flow_new_iteration' = p
                  /\ solution_flow_old_iteration' = p
                  /\ old_solution_transport' = c
                  /\ solution_transport' = c
                  /\ old_nodal_biomass_concentration' = b
                  /\ new_nodal_biomass_concentration' = b
                  /\ timestep_number' = 1
                  /\ pc' = "timestep_loop"
                  /\ UNCHANGED <<main_vars, phase_vars, time_step,
                                 time, mile_vars, redefine_time_step, loop_vars,
                                 flow_at_top, flow_at_bottom, new_nodal_vars,
                                 old_nodal_biomass_fraction,
                                 old_nodal_total_moisture_content,
                                 old_nodal_free_moisture_content,
                                 old_nodal_hydraulic_conductivity,
                                 old_nodal_specific_moisture_capacity,
                                 nutrient_vars, cumulative_vars, refine_indicator,
                                 hist_vars, hydraulic_vars, mesh_vars>>

\* ------------------------------------------------------- Heat_Pipe::run
\* mutant: the error of the pressure field is estimated whatever the argument
error_indicator_from_flow(refine) == "flow"

\* refine_grid(refine): the field KellyErrorEstimator is run on
error_indicator(refine) == IF refine THEN "transport" ELSE "flow"

\* head of the time loop: the loop test, refine_grid and the Picard locals
begin_timestep ==
  /\ pc = "timestep_loop"
  /\ timestep_number < timestep_number_max
  /\ refine_indicator' = error_indicator(transient_transport = TRUE)
  /\ relative_error_flow' = Frac(1000, 1)
  /\ relative_error_transport' = Frac(0, 1)
  /\ old_norm_transport' = 0
  /\ iteration' = 0
  /\ step' = 0
  /\ remain_in_loop' = TRUE
  /\ pc' = "picard"
  /\ h_transitions' = {}
  /\ h_stalls' = 0
  /\ h_passes' = 0
  /\ h_step_begin' = [time_step |-> time_step, time |-> time,
                      timestep_number |-> timestep_number,
                      drying |-> transient_drying,
                      cumulative_flow_at_top |-> cumulative_flow_at_top,
                      cumulative_flow_at_bottom |-> cumulative_flow_at_bottom]
  /\ h_loop_exit' = time_step
  /\ h_updates' = 0
  \* refine_grid: refine_and_coarsen_fixed_fraction and
  \* execute_coarsening_and_refinement run whatever the argument is
  /\ h_refinements' = 1
  /\ h_calls' = <<>>
  /\ UNCHANGED <<main_vars, phase_vars, clock_vars, mile_vars, redefine_time_step,
                 flow_vars, new_nodal_vars, old_vars, nutrient_vars, cumulative_vars,
                 solution_transport, new_nodal_biomass_concentration, hydraulic_vars, mesh_vars>>

\* the time loop ends, run() returns and main returns 0
finish ==
  /\ pc = "timestep_loop"
  /\ ~(timestep_number < timestep_number_max)
  /\ pc' = "finished"
  /\ exit_status' = main_return("none")
  /\ UNCHANGED <<parameters, checkpoint_files, thrown, phase_vars, clock_vars, mile_vars,
                 redefine_time_step, loop_vars, flow_vars, new_nodal_vars, old_vars,
                 nutrient_vars, cumulative_vars, solution_transport,
                 new_nodal_biomass_concentration, refine_indicator, hist_vars,
                 hydraulic_vars, mesh_vars>>

\* iteration count at which the transport phase restarts the loop
PicardCap == 40

\* the test opening the do-body: the loop stalled in the transport phase
stall_recovery_due == transient_transport = TRUE /\ iteration = PicardCap

\* mutant: the stall restarts the loop and keeps the step size
stalled_time_step_kept(dt) == dt

\* the step size the loop continues with after the stall test
stalled_time_step(dt) == dt \div 2

\* the guard on assemble_system_transport / solve_system_transport
transport_equation_active ==
  (transient_transport = TRUE \/ test_transport = TRUE) /\ coupled_transport = TRUE

\* relative_error_flow = fabs(1. - old_norm_flow / new_norm_flow)
flow_relative_error(old_norm_flow, new_norm_flow) ==
  Frac(Abs(new_norm_flow - old_norm_flow), new_norm_flow)

\* relative_error_transport = 100. * fabs(1. - fabs(old_norm / new_norm))
transport_relative_error(old_norm, new_norm) ==
  Frac(100 * Abs(new_norm - old_norm), new_norm)

\* mutant: the loop is capped, it is left after its third pass at the latest
leave_picard_loop_at_cap(error_flow, error_transport, it) ==
  IF test_transport = FALSE
  THEN (FracLess(error_flow, 1, 10 ^ 8) /\ FracLeq(error_transport, 1, 1000) /\ it # 0)
         \/ it >= 2
  ELSE FracLess(error_transport, 3, 2 * 10 ^ 7) \/ it >= 2

\* mutant: the loop may be left on its first pass
leave_picard_loop_on_first_pass(error_flow, error_transport, it) ==
  IF test_transport = FALSE
  THEN FracLess(error_flow, 1, 10 ^ 8) /\ FracLeq(error_transport, 1, 1000)
  ELSE FracLess(error_transport, 3, 2 * 10 ^ 7)

\* the test that clears remain_in_loop, on the errors of this pass and the
\* iteration count before its increment
leave_picard_loop(error_flow, error_transport, it) ==
  IF test_transport = FALSE
  THEN FracLess(error_flow, 1, 10 ^ 8) /\ FracLeq(error_transport, 1, 1000) /\ it # 0
  ELSE FracLess(error_transport, 3, 2 * 10 ^ 7)

\* the guard on assemble_system_flow / solve_system_flow
flow_equation_active == solve_flow /\ test_transport = FALSE

\* the throw assemble_system_flow() reaches for the configured equation
assemble_system_flow_error ==
  IF parameters.moisture_transport_equation = "head" THEN "none"
  ELSE IF parameters.moisture_transport_equation = "mixed" THEN "none"
  ELSE "Moisture transport equation is not implemented"

\* the calls one pass makes, in the order of its statements
pass_calls ==
  <<"calculate_mass_balance_ratio">>
    \o (IF flow_equation_active THEN <<"assemble_system_flow">> ELSE <<>>)
    \o (IF transport_equation_active THEN <<"assemble_system_transport">> ELSE <<>>)
    \o (IF flow_equation_active THEN <<"solve_system_flow">> ELSE <<>>)
    \o (IF transport_equation_active THEN <<"solve_system_transport">> ELSE <<>>)

\* the pressure iterate assemble_system_transport() reads as the new pressure
assemble_system_transport_pressure == solution_flow_old_iteration

\* the first exception a pass raises, in the order of its calls
pass_exception(fault) ==
  IF calculate_mass_balance_ratio_error # "none" THEN "throw -1"
  ELSE IF flow_equation_active /\ assemble_system_flow_error # "none" THEN "throw -1"
  ELSE IF transport_equation_active /\ fault = "velocity" THEN "throw -1"
  ELSE IF flow_equation_active /\ fault = "solve_system_flow"
       THEN "SolverControl::NoConvergence"
  ELSE IF transport_equation_active /\ fault = "solve_system_transport"
       THEN "SolverControl::NoConvergence"
  ELSE "none"

\* one pass of the do-while body
picard_pass ==
  /\ pc = "picard"
  /\ stall_recovery_due => h_stalls < MaxStalls
  /\ transient_transport = FALSE => iteration < MaxPasses
  /\ LET stall == stall_recovery_due
         dt == IF stall THEN stalled_time_step(time_step) ELSE time_step
         error_flow_0 == IF stall THEN Frac(1000, 1) ELSE relative_error_flow
         error_transport_0 == IF stall THEN Frac(0, 1) ELSE relative_error_transport
         it == IF stall THEN 0 ELSE iteration
         flow_solved == flow_equation_active
         biomass == calculate_mass_balance_ratio(dt)
         pressure == solution_flow_old_iteration
         biomass_fraction == nodal_biomass_fraction(biomass)
         hydraulic_conductivity == nodal_hydraulic_conductivity(pressure, biomass)
         total_moisture_content == nodal_total_moisture_content(pressure)
         free_moisture_content == nodal_free_moisture_content(pressure, biomass)
         specific_moisture_capacity == nodal_specific_moisture_capacity(pressure)
     IN \/ \E fault \in PassFaults :
             /\ pass_exception(fault) # "none"
             /\ IF calculate_mass_balance_ratio_error # "none"
                THEN abort_in_call(calculate_mass_balance_ratio_thrower,
                                   calculate_mass_balance_ratio_error)
                ELSE abort(pass_exception(fault))
        \/ /\ pass_exception("none") = "none"
           /\ time_step' = dt
           /\ new_nodal_biomass_concentration' = biomass
           /\ new_nodal_biomass_fraction' = biomass_fraction
           /\ new_nodal_hydraulic_conductivity' = hydraulic_conductivity
           /\ new_nodal_total_moisture_content' = total_moisture_content
           /\ new_nodal_free_moisture_content' = free_moisture_content
           /\ new_nodal_specific_moisture_capacity' = specific_moisture_capacity
           /\ \E solved_flow \in IF flow_solved THEN FlowSolutions
                                               ELSE {solution_flow_new_iteration},
                 flows \in IF flow_solved THEN BoundaryFlows
                                          ELSE {<<flow_at_top, flow_at_bottom>>},
                 nutrients \in IF transport_equation_active THEN NutrientFlows
                                                            ELSE {nutrient_vars},
                 solved_transport \in IF transport_equation_active
                                      THEN TransportSolutions
                                      ELSE {solution_transport} :
                LET error_flow ==
                      IF flow_solved
                      THEN flow_relative_error(norm_sqr(solution_flow_old_iteration),
                                               norm_sqr(solved_flow))
                      ELSE error_flow_0
                    error_transport ==
                      IF transport_equation_active
                      THEN transport_relative_error(old_norm_transport,
                                                    norm_sqr(solved_transport))
                      ELSE error_transport_0
                    leave == leave_picard_loop(error_flow, error_transport, it)
                IN /\ flow_at_top' = flows[1]
                   /\ flow_at_bottom' = flows[2]
                   /\ nutrient_flow_at_top' = nutrients[1]
                   /\ nutrient_flow_at_bottom' = nutrients[2]
                   /\ nutrients_in_domain_current' = nutrients[3]
                   /\ solution_flow_new_iteration' = solved_flow
                   /\ solution_flow_old_iteration' =
                         IF flow_solved THEN solved_flow ELSE solution_flow_old_iteration
                   /\ solution_transport' = solved_transport
                   /\ old_norm_transport' =
                         IF transport_equation_active THEN norm_sqr(solved_transport)
                                                      ELSE old_norm_transport
                   /\ relative_error_flow' = error_flow
                   /\ relative_error_transport' = error_transport
                   /\ remain_in_loop' = ~leave
                   /\ iteration' = it + 1
                   /\ step' = step + 1
                   /\ pc' = IF leave THEN "advance_time" ELSE "picard"
                   /\ h_stalls' = IF stall THEN h_stalls + 1 ELSE h_stalls
                   /\ h_passes' = h_passes + 1
                   /\ h_loop_exit' = dt
                   /\ h_calls' = pass_calls
                   /\ UNCHANGED <<main_vars, phase_vars, time, timestep_number, mile_vars,
                                  redefine_time_step, old_vars, cumulative_vars,
                                  refine_indicator, h_transitions, h_step_begin,
                                  h_updates, h_refinements, hydraulic_vars, mesh_vars>>

\* mutant: the totals are advanced with the step size the step began with
accumulated_flow_at_step_start(cumulative_flow, nutrient_flow) ==
  cumulative_flow + nutrient_flow * h_step_begin.time_step

\* cumulative_flow += nutrient_flow * time_step
accumulated_flow(cumulative_flow, nutrient_flow) ==
  cumulative_flow + nutrient_flow * time_step

\* time = time + time_step, and the cumulative nutrient totals
advance_time ==
  /\ pc = "advance_time"
  /\ time' = time + time_step
  /\ cumulative_flow_at_top' = accumulated_flow(cumulative_flow_at_top, nutrient_flow_at_top)
  /\ cumulative_flow_at_bottom' =
       accumulated_flow(cumulative_flow_at_bottom, nutrient_flow_at_bottom)
  /\ nutrients_in_domain_previous' = nutrients_in_domain_current
  /\ pc' = "phase_drying"
  /\ UNCHANGED <<main_vars, phase_vars, time_step, timestep_number, mile_vars,
                 redefine_time_step, loop_vars, flow_vars, new_nodal_vars, old_vars,
                 nutrient_vars, solution_transport, new_nodal_biomass_concentration,
                 refine_indicator, hist_vars, hydraulic_vars, mesh_vars>>

\* fabs(1. - pressure_at_top / (richards_bottom_fixed_value - domain_size))
\*   < relative_tolerance_drying = 3.1E-4
dry_conditions_reached(pressure_at_top) ==
  LET expected == parameters.richards_bottom_fixed_value - parameters.domain_size
  IN FracLess(Frac(Abs(expected - pressure_at_top), Abs(expected)), 31, 100000)

\* relative_error_saturation < 2E-2 || absolute_error_saturation < 3E-6; both
\* errors keep their initial 0. unless the top pressure is fixed
saturated_conditions_reached(top, bottom) ==
  LET relative_error_saturation ==
        IF parameters.richards_fixed_at_top = FALSE THEN Frac(0, 1)
        ELSE Frac(Abs(Abs(bottom) - Abs(top)), Abs(bottom))
      absolute_error_saturation ==
        IF parameters.richards_fixed_at_top = FALSE THEN Frac(0, 1)
        ELSE Frac(Abs(top + bottom), 1)
  IN \/ FracLess(relative_error_saturation, 2, 100)
     \/ FracLess(absolute_error_saturation, 3, 1)

\* mutant: the seed is scaled by the node index
seeded_biomass_by_node(i) == i * (parameters.initial_condition_homogeneous_bacteria \div 1000)

\* the biomass the switch to transport writes at node i
seeded_biomass(i) == parameters.initial_condition_homogeneous_bacteria \div 1000

\* mutant: the drying test is run in every phase
drying_test_in_every_phase == test_transport = FALSE

\* the guards around the drying test
drying_test_enabled == test_transport = FALSE /\ transient_drying = TRUE

\* the guards around the saturation test
saturation_test_enabled ==
  test_transport = FALSE /\ transient_saturation = TRUE /\ coupled_transport = TRUE

\* mutant: the switch to saturation keeps the old milestone time
phase_drying_keeping_milestone ==
  /\ pc = "phase_drying"
  /\ IF /\ drying_test_enabled
        /\ dry_conditions_reached(solution_flow_new_iteration[1])
     THEN /\ figure_count' = 0
          /\ transient_drying' = FALSE
          /\ transient_saturation' = TRUE
          /\ redefine_time_step' = TRUE
          /\ time_for_dry_conditions' = time
          /\ milestone_time' = milestone_time
          /\ h_transitions' = h_transitions \cup {"saturation"}
     ELSE UNCHANGED <<figure_count, transient_drying, transient_saturation,
                      redefine_time_step, time_for_dry_conditions, milestone_time,
                      h_transitions>>
  /\ pc' = "phase_saturation"
  /\ UNCHANGED <<main_vars, transient_transport, clock_vars,
                 time_for_saturated_conditions, loop_vars, flow_vars, new_nodal_vars,
                 old_vars, nutrient_vars, cumulative_vars,
                 solution_transport, new_nodal_biomass_concentration, refine_indicator,
                 h_stalls, h_passes, h_step_begin, h_loop_exit, h_updates,
                 h_refinements, h_calls, hydraulic_vars, mesh_vars>>

\* "Begin SATURATION": the drying test after the loop
phase_drying ==
  /\ pc = "phase_drying"
  /\ IF /\ drying_test_enabled
        /\ dry_conditions_reached(solution_flow_new_iteration[1])
     THEN /\ figure_count' = 0
          /\ transient_drying' = FALSE
          /\ transient_saturation' = TRUE
          /\ redefine_time_step' = TRUE
          /\ time_for_dry_conditions' = time
          /\ milestone_time' = time
          /\ h_transitions' = h_transitions \cup {"saturation"}
     ELSE UNCHANGED <<figure_count, transient_drying, transient_saturation,
                      redefine_time_step, time_for_dry_conditions, milestone_time,
                      h_transitions>>
  /\ pc' = "phase_saturation"
  /\ UNCHANGED <<main_vars, transient_transport, clock_vars,
                 time_for_saturated_conditions, loop_vars, flow_vars, new_nodal_vars,
                 old_vars, nutrient_vars, cumulative_vars,
                 solution_transport, new_nodal_biomass_concentration, refine_indicator,
                 h_stalls, h_passes, h_step_begin, h_loop_exit, h_updates,
                 h_refinements, h_calls, hydraulic_vars, mesh_vars>>

\* "Begin TRANSPORT": the saturation test after the loop
phase_saturation ==
  /\ pc = "phase_saturation"
  /\ IF /\ saturation_test_enabled
        /\ saturated_conditions_reached(flow_at_top, flow_at_bottom)
     THEN /\ transient_saturation' = FALSE
          /\ transient_transport' = TRUE
          /\ redefine_time_step' = TRUE
          /\ new_nodal_biomass_concentration' = [i \in Nodes |-> seeded_biomass(i)]
          /\ new_nodal_biomass_fraction' =
                nodal_biomass_fraction([i \in Nodes |-> seeded_biomass(i)])
          /\ figure_count' = 0
          /\ time_for_saturated_conditions' = time - milestone_time
          /\ milestone_time' = time
          /\ h_transitions' = h_transitions \cup {"transport"}
     ELSE UNCHANGED <<transient_saturation, transient_transport, redefine_time_step,
                      new_nodal_biomass_concentration, new_nodal_biomass_fraction,
                      figure_count, time_for_saturated_conditions, milestone_time,
                      h_transitions>>
  /\ pc' = "output"
  /\ UNCHANGED <<main_vars, transient_drying, clock_vars, time_for_dry_conditions,
                 loop_vars, flow_vars, new_nodal_total_moisture_content,
                 new_nodal_free_moisture_content, new_nodal_hydraulic_conductivity,
                 new_nodal_specific_moisture_capacity, old_vars, nutrient_vars,
                 cumulative_vars, solution_transport, refine_indicator,
                 h_stalls, h_passes, h_step_begin, h_loop_exit, h_updates,
                 h_refinements, h_calls, hydraulic_vars, mesh_vars>>

\* "OUTPUT solution files": output_results() and the output counter
output ==
  /\ pc = "output"
  /\ LET output_frequency_drying == TimeScale
         output_frequency_saturation == TimeScale
         output_frequency_transport == parameters.output_frequency_transport
         elapsed == time - milestone_time
     IN IF \/ transient_drying = TRUE /\ elapsed >= figure_count * output_frequency_drying
           \/ transient_saturation = TRUE
                /\ elapsed >= figure_count * output_frequency_saturation
           \/ transient_transport = TRUE /\ output_frequency_transport # 0
                /\ elapsed >= figure_count * output_frequency_transport
           \/ timestep_number = timestep_number_max - 1
        THEN figure_count' = figure_count + 1
        ELSE figure_count' = figure_count
  /\ pc' = "update_timestep"
  /\ UNCHANGED <<main_vars, phase_vars, clock_vars, milestone_time,
                 time_for_dry_conditions, time_for_saturated_conditions,
                 redefine_time_step, loop_vars, flow_vars, new_nodal_vars, old_vars,
                 nutrient_vars, cumulative_vars, solution_transport,
                 new_nodal_biomass_concentration, refine_indicator, hist_vars,
                 hydraulic_vars, mesh_vars>>

\* the smallest step size, 1 s
MinTimeStep == TimeScale
\* the largest step size of the transport phase, 60 s
MaxTimeStepTransport == 60 * TimeScale
\* pass count under which the step size is doubled
FastConvergence == 15

\* mutant: a phase switch does not reset the step size
redefined_time_step_without_reset(dt, redefine, passes) ==
  IF passes < FastConvergence THEN dt * 2 ELSE dt

\* first half of "Update timestep": reset after a phase switch, else doubling
redefined_time_step(dt, redefine, passes) ==
  IF redefine = TRUE THEN MinTimeStep
  ELSE IF passes < FastConvergence THEN dt * 2
  ELSE dt

\* mutant: the transport phase has no ceiling
clamped_time_step_without_ceiling(dt) ==
  LET floored == IF dt < MinTimeStep THEN MinTimeStep ELSE dt
  IN IF floored > MinTimeStep /\ transient_drying = TRUE THEN MinTimeStep
     ELSE IF floored > MinTimeStep /\ transient_saturation = TRUE THEN MinTimeStep
     ELSE floored

\* second half of "Update timestep": the clamps
clamped_time_step(dt) ==
  LET floored == IF dt < MinTimeStep THEN MinTimeStep ELSE dt
  IN IF floored > MinTimeStep /\ transient_drying = TRUE THEN MinTimeStep
     ELSE IF floored > MinTimeStep /\ transient_saturation = TRUE THEN MinTimeStep
     ELSE IF floored > MaxTimeStepTransport /\ transient_transport = TRUE
          THEN MaxTimeStepTransport
     ELSE floored

\* "Update timestep"
update_timestep ==
  /\ pc = "update_timestep"
  /\ IF test_transport = FALSE
     THEN /\ time_step' = clamped_time_step(
                             redefined_time_step(time_step, redefine_time_step, step))
          /\ redefine_time_step' = FALSE
          /\ h_updates' = h_updates + 1
     ELSE UNCHANGED <<time_step, redefine_time_step, h_updates>>
  /\ pc' = "update_solutions"
  /\ UNCHANGED <<main_vars, phase_vars, time, timestep_number, mile_vars, loop_vars,
                 flow_vars, new_nodal_vars, old_vars, nutrient_vars, cumulative_vars,
                 solution_transport, new_nodal_biomass_concentration, refine_indicator,
                 h_transitions, h_stalls, h_passes, h_step_begin, h_loop_exit,
                 h_refinements, h_calls, hydraulic_vars, mesh_vars>>

\* mutant: the commit leaves the old conductivity field alone
update_solutions_keeping_conductivity ==
  /\ pc = "update_solutions"
  /\ old_solution_flow' = solution_flow_new_iteration
  /\ old_solution_transport' = solution_transport
  /\ old_nodal_total_moisture_content' = new_nodal_total_moisture_content
  /\ old_nodal_free_moisture_content' = new_nodal_free_moisture_content
  /\ old_nodal_biomass_concentration' = new_nodal_biomass_concentration
  /\ old_nodal_hydraulic_conductivity' = old_nodal_hydraulic_conductivity
  /\ old_nodal_specific_moisture_capacity' = new_nodal_specific_moisture_capacity
  /\ old_nodal_biomass_fraction' = new_nodal_biomass_fraction
  /\ timestep_number' = timestep_number + 1
  /\ pc' = "timestep_loop"
  /\ UNCHANGED <<main_vars, phase_vars, time_step, time, mile_vars,
                 redefine_time_step, loop_vars, flow_vars, new_nodal_vars, nutrient_vars,
                 cumulative_vars, solution_transport,
                 new_nodal_biomass_concentration, refine_indicator, hist_vars,
                 hydraulic_vars, mesh_vars>>

\* "Update solutions": the commit, and the time loop's ++timestep_number
update_solutions ==
  /\ pc = "update_solutions"
  /\ old_solution_flow' = solution_flow_new_iteration
  /\ old_solution_transport' = solution_transport
  /\ old_nodal_total_moisture_content' = new_nodal_total_moisture_content
  /\ old_nodal_free_moisture_content' = new_nodal_free_moisture_content
  /\ old_nodal_biomass_concentration' = new_nodal_biomass_concentration
  /\ old_nodal_hydraulic_conductivity' = new_nodal_hydraulic_conductivity
  /\ old_nodal_specific_moisture_capacity' = new_nodal_specific_moisture_capacity
  /\ old_nodal_biomass_fraction' = new_nodal_biomass_fraction
  /\ timestep_number' = timestep_number + 1
  /\ pc' = "timestep_loop"
  /\ UNCHANGED <<main_vars, phase_vars, time_step, time, mile_vars,
                 redefine_time_step, loop_vars, flow_vars, new_nodal_vars, nutrient_vars,
                 cumulative_vars, solution_transport,
                 new_nodal_biomass_concentration, refine_indicator, hist_vars,
                 hydraulic_vars, mesh_vars>>

Next ==
  \/ initial_condition
  \/ begin_timestep
  \/ picard_pass
  \/ advance_time
  \/ phase_drying
  \/ phase_saturation
  \/ output
  \/ update_timestep
  \/ update_solutions
  \/ finish

Spec == Init /\ [][Next]_vars

\* ----------------------------------- Hydraulic_Properties, called directly
\* A second specification: a Hydraulic_Properties object built from a
\* parameter file and its member functions called one at a time on drawn
\* arguments; call and returned hold the last call and its outcome.
heat_pipe_vars == <<main_vars, pc, phase_vars, clock_vars, mile_vars, redefine_time_step,
                    loop_vars, flow_vars, new_nodal_vars, old_vars, nutrient_vars,
                    cumulative_vars, solution_transport, new_nodal_biomass_concentration,
                    refine_indicator, hist_vars, mesh_vars>>

\* residual moisture contents of the parameter files, below the saturated one
ResidualMoistureContents == {0, 100}

HydraulicParameterFiles ==
  {[p EXCEPT !.moisture_content_residual = r] :
     r \in ResidualMoistureContents,
     p \in {q \in ParameterFiles :
              /\ q.initial_state = "default"
              /\ q.relative_permeability_model = "soleimani"
              /\ q.moisture_transport_equation = "head"
              /\ q.test_function_transport = FALSE
              /\ q.coupled_transport = TRUE
              /\ q.richards_fixed_at_top = TRUE}}

\* arguments of the calls: heads in 0.01 cm on both sides of zero, biomass
\* concentrations below, at and above the dry density, model names
PressureHeads == {-10000, -5000, -100, 0, 100, 5000}
BiomassConcentrations == {0, 2000, 4000, 6000}
BiomassDryDensities == {4000}
PermeabilityModelNames == PermeabilityModels \cup {"kozeny_carman"}

InitHydraulics ==
  /\ parameters \in HydraulicParameterFiles
  /\ checkpoint_files = [f \in CheckpointFields |-> "absent"]
  /\ pc = "Hydraulic_Properties"
  /\ exit_status = "none"
  /\ thrown = "none"
  /\ transient_drying = initial_phase(parameters.initial_state)[1]
  /\ transient_saturation = initial_phase(parameters.initial_state)[2]
  /\ transient_transport = initial_phase(parameters.initial_state)[3]
  /\ members_constructed
  /\ call = NoCall
  /\ returned = NoReturn
  /\ triangulation = CoarseGrid
  /\ sparsity_pattern = make_sparsity_pattern(CoarseGrid)
  /\ repeated_points = count_repeated_points(CoarseGrid, cleared_points)

\* the outcome of a call: the value, or "throw -1" after the diagnostic
outcome(error, value) ==
  IF error = "none" THEN [thrown |-> "none", diagnostic |-> "none", value |-> value]
  ELSE [thrown |-> "throw -1", diagnostic |-> error, value |-> 0]

\* the record of a call on a head alone
call_on_head(function, pressure_head) ==
  [function |-> function, pressure_head |-> pressure_head, biomass_concentration |-> 0,
   biomass_dry_density |-> 0, relative_permeability_model |-> "none"]

\* the record of a call on a biomass concentration, with or without a head
call_on_biomass(function, pressure_head, biomass_concentration, biomass_dry_density) ==
  [function |-> function, pressure_head |-> pressure_head,
   biomass_concentration |-> biomass_concentration,
   biomass_dry_density |-> biomass_dry_density, relative_permeability_model |-> "none"]

call_get_specific_moisture_capacity ==
  /\ pc = "Hydraulic_Properties"
  /\ \E h \in PressureHeads :
       /\ call' = call_on_head("get_specific_moisture_capacity", h)
       /\ returned' = outcome(get_specific_moisture_capacity_error,
                              get_specific_moisture_capacity(h))
  /\ UNCHANGED heat_pipe_vars

call_get_effective_total_saturation ==
  /\ pc = "Hydraulic_Properties"
  /\ \E h \in PressureHeads :
       /\ call' = call_on_head("get_effective_total_saturation", h)
       /\ returned' = outcome(get_effective_total_saturation_error,
                              get_effective_total_saturation(h))
  /\ UNCHANGED heat_pipe_vars

call_get_actual_total_saturation ==
  /\ pc = "Hydraulic_Properties"
  /\ \E h \in PressureHeads :
       /\ call' = call_on_head("get_actual_total_saturation", h)
       /\ returned' = outcome(get_actual_total_saturation_error,
                              get_actual_total_saturation(h))
  /\ UNCHANGED heat_pipe_vars

call_get_effective_biomass_saturation ==
  /\ pc = "Hydraulic_Properties"
  /\ \E b \in BiomassConcentrations, d \in BiomassDryDensities :
       /\ call' = call_on_biomass("get_effective_biomass_saturation", 0, b, d)
       /\ returned' = outcome("none", get_effective_biomass_saturation(b, d))
  /\ UNCHANGED heat_pipe_vars

call_get_actual_biomass_saturation ==
  /\ pc = "Hydraulic_Properties"
  /\ \E b \in BiomassConcentrations, d \in BiomassDryDensities :
       /\ call' = call_on_biomass("get_actual_biomass_saturation", 0, b, d)
       /\ returned' = outcome("none", get_actual_biomass_saturation(b, d))
  /\ UNCHANGED heat_pipe_vars

call_get_effective_free_saturation ==
  /\ pc = "Hydraulic_Properties"
  /\ \E h \in PressureHeads, b \in BiomassConcentrations, d \in BiomassDryDensities :
       /\ call' = call_on_biomass("get_effective_free_saturation", h, b, d)
       /\ returned' = outcome(get_effective_free_saturation_error,
                              get_effective_free_saturation(h, b, d))
  /\ UNCHANGED heat_pipe_vars

call_get_hydraulic_conductivity ==
  /\ pc = "Hydraulic_Properties"
  /\ \E h \in PressureHeads, b \in BiomassConcentrations, d \in BiomassDryDensities,
        model \in PermeabilityModelNames :
       /\ call' = [function |-> "get_hydraulic_conductivity", pressure_head |-> h,
                   biomass_concentration |-> b, biomass_dry_density |-> d,
                   relative_permeability_model |-> model]
       /\ returned' = outcome(get_hydraulic_conductivity_error(model),
                              get_hydraulic_conductivity(h, b, d, model))
  /\ UNCHANGED heat_pipe_vars

call_get_moisture_content_total ==
  /\ pc = "Hydraulic_Properties"
  /\ \E h \in PressureHeads :
       /\ call' = call_on_head("get_moisture_content_total", h)
       /\ returned' = outcome(get_moisture_content_total_error,
                              get_moisture_content_total(h))
  /\ UNCHANGED heat_pipe_vars

call_get_moisture_content_free ==
  /\ pc = "Hydraulic_Properties"
  /\ \E h \in PressureHeads, b \in BiomassConcentrations, d \in BiomassDryDensities :
       /\ call' = call_on_biomass("get_moisture_content_free", h, b, d)
       /\ returned' = outcome(get_moisture_content_free_error,
                              get_moisture_content_free(h, b, d))
  /\ UNCHANGED heat_pipe_vars

NextHydraulics ==
  \/ call_get_specific_moisture_capacity
  \/ call_get_effective_total_saturation
  \/ call_get_actual_total_saturation
  \/ call_get_effective_biomass_saturation
  \/ call_get_actual_biomass_saturation
  \/ call_get_effective_free_saturation
  \/ call_get_hydraulic_conductivity
  \/ call_get_moisture_content_total
  \/ call_get_moisture_content_free

SpecHydraulics == InitHydraulics /\ [][NextHydraulics]_vars

\* ------------------------------------ Heat_Pipe::refine_grid, called directly
\* A third specification: refine_grid() called on a Heat_Pipe whose nodal
\* vectors hold drawn values, over grids that change.
\* the vectors refine_grid() copies into transfer_in, in the order of its
\* push_back calls
transfer_in_order ==
  <<"old_solution_flow",
    "solution_flow_new_iteration",
    "solution_flow_old_iteration",
    "old_solution_transport",
    "solution_transport",
    "old_nodal_biomass_concentration",
    "new_nodal_biomass_concentration",
    "old_nodal_biomass_fraction",
    "new_nodal_biomass_fraction",
    "old_nodal_free_moisture_content",
    "new_nodal_free_moisture_content",
    "old_nodal_total_moisture_content",
    "new_nodal_total_moisture_content",
    "old_nodal_hydraulic_conductivity",
    "new_nodal_hydraulic_conductivity",
    "old_nodal_specific_moisture_capacity",
    "new_nodal_specific_moisture_capacity">>

\* mutant: the free and the total moisture contents are read back from each
\* other's places
transfer_out_order_crossed ==
  <<"old_solution_flow",
    "solution_flow_new_iteration",
    "solution_flow_old_iteration",
    "old_solution_transport",
    "solution_transport",
    "old_nodal_biomass_concentration",
    "new_nodal_biomass_concentration",
    "old_nodal_biomass_fraction",
    "new_nodal_biomass_fraction",
    "old_nodal_total_moisture_content",
    "new_nodal_total_moisture_content",
    "old_nodal_free_moisture_content",
    "new_nodal_free_moisture_content",
    "old_nodal_hydraulic_conductivity",
    "new_nodal_hydraulic_conductivity",
    "old_nodal_specific_moisture_capacity",
    "new_nodal_specific_moisture_capacity">>

\* the member assigned from transfer_out[k], k = 1 .. 17 (0 .. 16 in the code)
transfer_out_order ==
  <<"old_solution_flow",
    "solution_flow_new_iteration",
    "solution_flow_old_iteration",
    "old_solution_transport",
    "solution_transport",
    "old_nodal_biomass_concentration",
    "new_nodal_biomass_concentration",
    "old_nodal_biomass_fraction",
    "new_nodal_biomass_fraction",
    "old_nodal_free_moisture_content",
    "new_nodal_free_moisture_content",
    "old_nodal_total_moisture_content",
    "new_nodal_total_moisture_content",
    "old_nodal_hydraulic_conductivity",
    "new_nodal_hydraulic_conductivity",
    "old_nodal_specific_moisture_capacity",
    "new_nodal_specific_moisture_capacity">>

\* the vectors setup_system() reinitialises to n_dofs zeros
setup_system_vectors ==
  {"solution_flow_new_iteration",
   "solution_flow_old_iteration",
   "old_solution_flow",
   "solution_transport",
   "old_solution_transport",
   "old_nodal_biomass_concentration",
   "new_nodal_biomass_concentration",
   "old_nodal_biomass_fraction",
   "new_nodal_biomass_fraction",
   "old_nodal_total_moisture_content",
   "new_nodal_total_moisture_content",
   "old_nodal_free_moisture_content",
   "new_nodal_free_moisture_content",
   "old_nodal_hydraulic_conductivity",
   "new_nodal_hydraulic_conductivity",
   "old_nodal_specific_moisture_capacity",
   "new_nodal_specific_moisture_capacity"}

\* the member vector of that name
field(name) ==
  CASE name = "old_solution_flow" -> old_solution_flow
    [] name = "solution_flow_new_iteration" -> solution_flow_new_iteration
    [] name = "solution_flow_old_iteration" -> solution_flow_old_iteration
    [] name = "old_solution_transport" -> old_solution_transport
    [] name = "solution_transport" -> solution_transport
    [] name = "old_nodal_biomass_concentration" -> old_nodal_biomass_concentration
    [] name = "new_nodal_biomass_concentration" -> new_nodal_biomass_concentration
    [] name = "old_nodal_biomass_fraction" -> old_nodal_biomass_fraction
    [] name = "new_nodal_biomass_fraction" -> new_nodal_biomass_fraction
    [] name = "old_nodal_free_moisture_content" -> old_nodal_free_moisture_content
    [] name = "new_nodal_free_moisture_content" -> new_nodal_free_moisture_content
    [] name = "old_nodal_total_moisture_content" -> old_nodal_total_moisture_content
    [] name = "new_nodal_total_moisture_content" -> new_nodal_total_moisture_content
    [] name = "old_nodal_hydraulic_conductivity" -> old_nodal_hydraulic_conductivity
    [] name = "new_nodal_hydraulic_conductivity" -> new_nodal_hydraulic_conductivity
    [] name = "old_nodal_specific_moisture_capacity" -> old_nodal_specific_moisture_capacity
    [] name = "new_nodal_specific_moisture_capacity" -> new_nodal_specific_moisture_capacity

\* the place of a name in an order: the last one, 0 when it is not there
last_place(order, name) ==
  LET places == {k \in 1 .. Len(order) : order[k] = name}
  IN IF places = {} THEN 0 ELSE CHOOSE k \in places : \A l \in places : l <= k

\* a member vector when refine_grid() returns on the grid "grid": what was
\* assigned to it from transfer_out, else what setup_system() left of it
transferred(name, grid) ==
  LET transfer_in == [k \in 1 .. Len(transfer_in_order) |-> field(transfer_in_order[k])]
      transfer_out == [k \in 1 .. Len(transfer_in) |->
                         interpolate(transfer_in[k], triangulation, grid)]
      place == last_place(transfer_out_order, name)
  IN IF place # 0 THEN transfer_out[place]
     ELSE IF name \in setup_system_vectors THEN reinit(Len(grid))
     ELSE field(name)

\* adaptations in one run of the third specification
MaxRefinements == 3

\* the values the vectors hold on the coarse grid when the calls start: one
\* profile for each family of vectors, and an offset that tells the
\* seventeen vectors apart
NodalProfiles == {<<8, 16>>, <<16, 8>>, <<24, 24>>}

drawn_vector(name, profile) ==
  [i \in 1 .. Len(CoarseGrid) |-> 100 * last_place(transfer_in_order, name) + profile[i]]

InitRefine ==
  /\ parameters \in {q \in ParameterFiles :
                        /\ q.initial_state = "saturated"
                        /\ q.hydraulic_properties = "van_genuchten_1980"
                        /\ q.relative_permeability_model = "soleimani"
                        /\ q.moisture_transport_equation = "head"
                        /\ q.test_function_transport = FALSE
                        /\ q.coupled_transport = TRUE
                        /\ q.richards_fixed_at_top = TRUE}
  /\ checkpoint_files = [f \in CheckpointFields |-> "complete"]
  /\ pc = "refine_grid"
  /\ exit_status = "none"
  /\ thrown = "none"
  /\ transient_drying = initial_phase(parameters.initial_state)[1]
  /\ transient_saturation = initial_phase(parameters.initial_state)[2]
  /\ transient_transport = initial_phase(parameters.initial_state)[3]
  /\ time_step = parameters.time_step
  /\ time = 0
  /\ timestep_number = 1
  /\ milestone_time = 0
  /\ time_for_dry_conditions = 0
  /\ time_for_saturated_conditions = 0
  /\ figure_count = 0
  /\ redefine_time_step = FALSE
  /\ iteration = 0
  /\ step = 0
  /\ remain_in_loop = TRUE
  /\ relative_error_flow = Frac(0, 1)
  /\ relative_error_transport = Frac(0, 1)
  /\ old_norm_transport = 0
  /\ \E flow \in NodalProfiles, transport \in NodalProfiles, nodal \in NodalProfiles :
       /\ old_solution_flow = drawn_vector("old_solution_flow", flow)
       /\ solution_flow_new_iteration = drawn_vector("solution_flow_new_iteration", flow)
       /\ solution_flow_old_iteration = drawn_vector("solution_flow_old_iteration", flow)
       /\ old_solution_transport = drawn_vector("old_solution_transport", transport)
       /\ solution_transport = drawn_vector("solution_transport", transport)
       /\ old_nodal_biomass_concentration = drawn_vector("old_nodal_biomass_concentration", nodal)
       /\ new_nodal_biomass_concentration = drawn_vector("new_nodal_biomass_concentration", nodal)
       /\ old_nodal_biomass_fraction = drawn_vector("old_nodal_biomass_fraction", nodal)
       /\ new_nodal_biomass_fraction = drawn_vector("new_nodal_biomass_fraction", nodal)
       /\ old_nodal_free_moisture_content = drawn_vector("old_nodal_free_moisture_content", nodal)
       /\ new_nodal_free_moisture_content = drawn_vector("new_nodal_free_moisture_content", nodal)
       /\ old_nodal_total_moisture_content = drawn_vector("old_nodal_total_moisture_content", nodal)
       /\ new_nodal_total_moisture_content = drawn_vector("new_nodal_total_moisture_content", nodal)
       /\ old_nodal_hydraulic_conductivity = drawn_vector("old_nodal_hydraulic_conductivity", nodal)
       /\ new_nodal_hydraulic_conductivity = drawn_vector("new_nodal_hydraulic_conductivity", nodal)
       /\ old_nodal_specific_moisture_capacity = drawn_vector("old_nodal_specific_moisture_capacity", nodal)
       /\ new_nodal_specific_moisture_capacity = drawn_vector("new_nodal_specific_moisture_capacity", nodal)
  /\ flow_at_top = 0
  /\ flow_at_bottom = 0
  /\ nutrient_flow_at_top = 0
  /\ nutrient_flow_at_bottom = 0
  /\ nutrients_in_domain_current = 0
  /\ nutrients_in_domain_previous = 0
  /\ cumulative_flow_at_top = 0
  /\ cumulative_flow_at_bottom = 0
  /\ refine_indicator = "none"
  /\ h_transitions = {}
  /\ h_stalls = 0
  /\ h_passes = 0
  /\ h_step_begin = [time_step |-> parameters.time_step, time |-> 0, timestep_number |-> 0,
                     drying |-> transient_drying,
                     cumulative_flow_at_top |-> 0, cumulative_flow_at_bottom |-> 0]
  /\ h_loop_exit = parameters.time_step
  /\ h_updates = 0
  /\ h_refinements = 0
  /\ h_calls = <<>>
  /\ call = NoCall
  /\ returned = NoReturn
  /\ triangulation = CoarseGrid
  /\ sparsity_pattern = make_sparsity_pattern(CoarseGrid)
  /\ repeated_points = count_repeated_points(CoarseGrid, cleared_points)

\* refine_grid(refine): the estimate, the flags, the copies into transfer_in,
\* the adaptation, setup_system(), the interpolation, the assignments from
\* transfer_out and the recount of repeated_points
refine_grid ==
  /\ pc = "refine_grid"
  /\ h_refinements < MaxRefinements
  /\ \E refine \in BOOLEAN, grid \in adapted_grids(triangulation) :
          /\ refine_indicator' = error_indicator(refine)
          /\ triangulation' = grid
          /\ sparsity_pattern' = make_sparsity_pattern(grid)
          /\ old_solution_flow' = transferred("old_solution_flow", grid)
          /\ solution_flow_new_iteration' = transferred("solution_flow_new_iteration", grid)
          /\ solution_flow_old_iteration' = transferred("solution_flow_old_iteration", grid)
          /\ old_solution_transport' = transferred("old_solution_transport", grid)
          /\ solution_transport' = transferred("solution_transport", grid)
          /\ old_nodal_biomass_concentration' = transferred("old_nodal_biomass_concentration", grid)
          /\ new_nodal_biomass_concentration' = transferred("new_nodal_biomass_concentration", grid)
          /\ old_nodal_biomass_fraction' = transferred("old_nodal_biomass_fraction", grid)
          /\ new_nodal_biomass_fraction' = transferred("new_nodal_biomass_fraction", grid)
          /\ old_nodal_free_moisture_content' = transferred("old_nodal_free_moisture_content", grid)
          /\ new_nodal_free_moisture_content' = transferred("new_nodal_free_moisture_content", grid)
          /\ old_nodal_total_moisture_content' = transferred("old_nodal_total_moisture_content", grid)
          /\ new_nodal_total_moisture_content' = transferred("new_nodal_total_moisture_content", grid)
          /\ old_nodal_hydraulic_conductivity' = transferred("old_nodal_hydraulic_conductivity", grid)
          /\ new_nodal_hydraulic_conductivity' = transferred("new_nodal_hydraulic_conductivity", grid)
          /\ old_nodal_specific_moisture_capacity' = transferred("old_nodal_specific_moisture_capacity", grid)
          /\ new_nodal_specific_moisture_capacity' = transferred("new_nodal_specific_moisture_capacity", grid)
          /\ repeated_points' = count_repeated_points(grid, cleared_points)
          /\ h_refinements' = h_refinements + 1
  /\ UNCHANGED <<main_vars, pc, phase_vars, clock_vars, mile_vars, redefine_time_step,
                 loop_vars, flow_at_top, flow_at_bottom, nutrient_vars, cumulative_vars,
                 h_transitions, h_stalls, h_passes, h_step_begin, h_loop_exit, h_updates,
                 h_calls, hydraulic_vars>>

NextRefine == refine_grid

SpecRefine == InitRefine /\ [][NextRefine]_vars

\* --------------- Heat_Pipe::assemble_system_transport, one cell's velocities
\* A fourth specification: the block of assemble_system_transport() that
\* thresholds a cell's two velocities and derives the stabilisation from
\* them, run on drawn velocities.  A velocity is a record: its class
\* ("finite", "nan" or "inf") and, when finite, its value in 1e-7 cm/s (the
\* cells lie on a line, so it has one component); diffusion values are
\* integers in a unit above 1e-10.
finite(value) == [class |-> "finite", value |-> value]
NaN == [class |-> "nan", value |-> 0]
Inf == [class |-> "inf", value |-> 0]

\* the threshold 1E-6 on a velocity norm
NegligibleVelocity == 10

\* Tensor<1,dim>::norm
velocity_norm(velocity) == [velocity EXCEPT !.value = Abs(velocity.value)]

\* norm < bound and norm >= bound as IEEE compares them: both false on a NaN
norm_less(norm, bound) == norm.class = "finite" /\ norm.value < bound
norm_at_least(norm, bound) ==
  norm.class = "inf" \/ (norm.class = "finite" /\ norm.value >= bound)

\* mutant: a negligible old velocity is kept beside a new one that is not
thresholded_velocities_keeping_old(new_velocity, old_velocity) ==
  IF norm_less(velocity_norm(new_velocity), NegligibleVelocity)
  THEN <<finite(0), finite(0)>>
  ELSE <<new_velocity, old_velocity>>

\* <<new_velocity, old_velocity>> after the two "if"s on their norms
thresholded_velocities(new_velocity, old_velocity) ==
  LET first == IF norm_less(velocity_norm(new_velocity), NegligibleVelocity)
               THEN <<finite(0), finite(0)>> ELSE <<new_velocity, old_velocity>>
  IN IF /\ norm_at_least(velocity_norm(first[1]), NegligibleVelocity)
        /\ norm_less(velocity_norm(first[2]), NegligibleVelocity)
     THEN <<first[1], first[1]>>
     ELSE first

VelocityError == "error in velocities calulation"
PecletError == "error in Peclet number calulation"

\* the throw after the thresholding: a NaN or an infinite norm
cell_velocity_error(velocities) ==
  IF velocities[1].class # "finite" \/ velocities[2].class # "finite" THEN VelocityError
  ELSE "none"

\* dispersivity_longitudinal * norm + effective_diffusion_coefficient, for a
\* finite velocity
diffusion_value(velocity) ==
  parameters.dispersivity_longitudinal * velocity_norm(velocity).value
    + parameters.effective_diffusion_coefficient

\* the sum of the two norms, for finite velocities
speed_sum(velocities) ==
  velocity_norm(velocities[1]).value + velocity_norm(velocities[2]).value

\* the guard on the computation of Peclet, beta and tau
stabilization_active(velocities) ==
  /\ norm_at_least(velocity_norm(velocities[1]), NegligibleVelocity)
  /\ diffusion_value(velocities[1]) > 0
  /\ diffusion_value(velocities[2]) > 0

\* 0.5 diameter (0.5 |new| + 0.5 |old|) / (0.5 new diffusion + 0.5 old
\* diffusion), in thousandths
peclet_number(velocities, diameter) ==
  IF stabilization_active(velocities)
  THEN (Unit * diameter * speed_sum(velocities))
         \div (2 * (diffusion_value(velocities[1]) + diffusion_value(velocities[2])))
  ELSE 0

\* 1/tanh(Peclet) - 1/Peclet in thousandths: Peclet/3 below 2, 1 - 1/Peclet
\* from 2 on; at Peclet = 0 it is the NaN of inf - inf
langevin_is_nan(peclet) == peclet = 0
langevin(peclet) ==
  IF peclet = 0 THEN 0
  ELSE IF peclet < 2 * Unit THEN peclet \div 3
  ELSE Unit - (Unit * Unit) \div peclet

beta_value(velocities, diameter) ==
  IF stabilization_active(velocities) THEN langevin(peclet_number(velocities, diameter))
  ELSE 0

\* 0.5 beta diameter / (0.5 |new| + 0.5 |old|)
tau_value(velocities, diameter) ==
  IF stabilization_active(velocities)
  THEN (beta_value(velocities, diameter) * diameter) \div speed_sum(velocities)
  ELSE 0

\* the throws after the stabilisation: a negative, NaN or infinite value
cell_peclet_error(velocities, diameter) ==
  IF \/ stabilization_active(velocities)
          /\ langevin_is_nan(peclet_number(velocities, diameter))
     \/ peclet_number(velocities, diameter) < 0
     \/ beta_value(velocities, diameter) < 0
     \/ tau_value(velocities, diameter) < 0
  THEN PecletError
  ELSE "none"

\* the outcome of one cell: the thresholded velocities and the
\* stabilisation, or the throw
NoCell == [new_velocity |-> finite(0), old_velocity |-> finite(0),
           Peclet |-> 0, beta |-> 0, tau |-> 0]

cell_outcome(new_velocity, old_velocity, diameter) ==
  LET velocities == thresholded_velocities(new_velocity, old_velocity)
  IN IF cell_velocity_error(velocities) # "none"
     THEN [thrown |-> "throw -1", diagnostic |-> VelocityError, value |-> NoCell]
     ELSE IF cell_peclet_error(velocities, diameter) # "none"
     THEN [thrown |-> "throw -1", diagnostic |-> PecletError, value |-> NoCell]
     ELSE [thrown |-> "none", diagnostic |-> "none",
           value |-> [new_velocity |-> velocities[1], old_velocity |-> velocities[2],
                      Peclet |-> peclet_number(velocities, diameter),
                      beta |-> beta_value(velocities, diameter),
                      tau |-> tau_value(velocities, diameter)]]

\* the velocities new_velocity /= dV and old_velocity /= dV can leave, and
\* cell diameters
CellVelocities == {finite(v) : v \in {-20, -10, -9, 0, 5, 9, 10, 20}} \cup {NaN, Inf}
CellDiameters == {1, 2}

\* parameter files with and without dispersion and diffusion
TransportParameterFiles ==
  {[p EXCEPT !.dispersivity_longitudinal = a, !.effective_diffusion_coefficient = d] :
     a \in {0, 1}, d \in {0, 1},
     p \in {q \in ParameterFiles :
              /\ q.initial_state = "saturated"
              /\ q.hydraulic_properties = "van_genuchten_1980"
              /\ q.relative_permeability_model = "soleimani"
              /\ q.moisture_transport_equation = "head"
              /\ q.test_function_transport = FALSE
              /\ q.coupled_transport = TRUE
              /\ q.richards_fixed_at_top = TRUE}}

InitTransportCell ==
  /\ parameters \in TransportParameterFiles
  /\ checkpoint_files = [f \in CheckpointFields |-> "complete"]
  /\ pc = "assemble_system_transport"
  /\ exit_status = "none"
  /\ thrown = "none"
  /\ transient_drying = initial_phase(parameters.initial_state)[1]
  /\ transient_saturation = initial_phase(parameters.initial_state)[2]
  /\ transient_transport = initial_phase(parameters.initial_state)[3]
  /\ members_constructed
  /\ call = [function |-> "none", new_velocity |-> finite(0), old_velocity |-> finite(0),
             diameter |-> 0]
  /\ returned = [thrown |-> "none", diagnostic |-> "none", value |-> NoCell]
  /\ triangulation = CoarseGrid
  /\ sparsity_pattern = make_sparsity_pattern(CoarseGrid)
  /\ repeated_points = count_repeated_points(CoarseGrid, cleared_points)

\* one cell of assemble_system_transport(), from the division by dV to the
\* last test on Peclet, beta and tau
assemble_system_transport_cell ==
  /\ pc = "assemble_system_transport"
  /\ \E new_velocity \in CellVelocities, old_velocity \in CellVelocities,
        diameter \in CellDiameters :
       /\ call' = [function |-> "assemble_system_transport",
                   new_velocity |-> new_velocity, old_velocity |-> old_velocity,
                   diameter |-> diameter]
       /\ returned' = cell_outcome(new_velocity, old_velocity, diameter)
  /\ UNCHANGED heat_pipe_vars

NextTransportCell == assemble_system_transport_cell

SpecTransportCell == InitTransportCell /\ [][NextTransportCell]_vars

\* ===================================================================
\* Properties
\* ===================================================================

\* C1: in every state of a run (after construction, inside the Picard loop,
\* after every committed time step) exactly one of the three phase flags is
\* true; there is no run when the constructor rejects the initial state.
ExactlyOnePhaseFlag ==
  parameters.initial_state \in InitialStates =>
    Cardinality({k \in 1 .. 3 : phase_vars[k] = TRUE}) = 1

\* C1 witness: a committed step of a run that started drying has taken the
\* machine through both switches
ExactlyOnePhaseFlagWitness ==
  /\ pc = "timestep_loop"
  /\ timestep_number > 1
  /\ parameters.initial_state \in {"default", "final"}
  /\ transient_transport = TRUE

\* C2: the phase only moves forward: once drying is left it is never
\* re-entered, transport is never left, and the only changes of the phase
\* are drying to saturation and saturation to transport.
PhaseOneDirectional ==
  [][ /\ (transient_drying = FALSE => transient_drying' = FALSE)
      /\ (transient_transport = TRUE => transient_transport' = TRUE)
      /\ (phase_vars' # phase_vars =>
            \/ phase_vars = <<TRUE, FALSE, FALSE>> /\ phase_vars' = <<FALSE, TRUE, FALSE>>
            \/ phase_vars = <<FALSE, TRUE, FALSE>> /\ phase_vars' = <<FALSE, FALSE, TRUE>>)
    ]_vars

\* C2 witness: the transport phase continues into a later time step after
\* the pressure at the top has met the drying criterion again
PhaseOneDirectionalWitness ==
  /\ pc = "phase_saturation"
  /\ transient_transport = TRUE
  /\ test_transport = FALSE
  /\ dry_conditions_reached(solution_flow_new_iteration[1])
  /\ h_transitions = {}

\* C3: the machine leaves drying exactly at the first committed step whose
\* top pressure meets |1 - p_top / (bottom value - domain size)| < 3.1e-4,
\* and that time step ends in the saturation phase with the step size at
\* its minimum 1.
DryingSwitchEndsInSaturation ==
  [][ /\ (pc = "phase_drying" /\ test_transport = FALSE /\ transient_drying = TRUE =>
            (transient_drying' = FALSE) =
              dry_conditions_reached(solution_flow_new_iteration[1]))
      /\ (pc = "update_solutions" /\ "saturation" \in h_transitions =>
            transient_saturation' = TRUE /\ time_step' = MinTimeStep)
    ]_vars

\* the flow balance C4 names: |1 - |top/bottom|| < 2e-2 or |top + bottom| < 3e-6
FlowsBalanced(top, bottom) ==
  \/ FracLess(Frac(Abs(Abs(bottom) - Abs(top)), Abs(bottom)), 2, 100)
  \/ Abs(top + bottom) < 3

\* C4: the switch from saturation to transport fires at a committed step
\* if and only if the phase is saturation, coupled transport is enabled and
\* the boundary flows are balanced; without coupled transport the phase
\* never becomes transport.
TransportSwitchIffFlowsBalanced ==
  [][ /\ (pc = "phase_saturation" /\ test_transport = FALSE =>
            (transient_transport = FALSE /\ transient_transport' = TRUE) =
              (/\ transient_saturation = TRUE
               /\ coupled_transport = TRUE
               /\ FlowsBalanced(flow_at_top, flow_at_bottom)))
      /\ (coupled_transport = FALSE => transient_transport' = transient_transport)
    ]_vars

\* C5: when the switch from drying to saturation fires, the output counter
\* is set to 0, the elapsed drying time and the milestone time are set to
\* the current simulation time, and the step size is 1 when the next time
\* step begins.
DryingSwitchResets ==
  [][ /\ (transient_drying = TRUE /\ transient_drying' = FALSE =>
            /\ figure_count' = 0
            /\ time_for_dry_conditions' = h_step_begin.time + h_loop_exit
            /\ milestone_time' = h_step_begin.time + h_loop_exit
            /\ time' = h_step_begin.time + h_loop_exit)
      /\ (pc = "update_solutions" /\ "saturation" \in h_transitions =>
            pc' = "timestep_loop" /\ time_step' = MinTimeStep)
    ]_vars

\* C5 witness: a time step in which the switch to saturation fired has
\* been committed
DryingSwitchResetsWitness ==
  /\ pc = "timestep_loop"
  /\ "saturation" \in h_transitions
  /\ time_for_dry_conditions > 0

\* the configured initial biomass, in mg per cm3
ConfiguredSeed == parameters.initial_condition_homogeneous_bacteria \div 1000

\* C6: when the switch from saturation to transport fires, every node gets
\* the same configured biomass seed, which is what the commit stores as the
\* old biomass; the output counter and the milestone time are reset and the
\* step size is 1 when the next time step begins.
TransportSwitchSeedsBiomass ==
  [][ /\ (transient_transport = FALSE /\ transient_transport' = TRUE =>
            /\ \A i \in Nodes : new_nodal_biomass_concentration'[i] = ConfiguredSeed
            /\ figure_count' = 0
            /\ milestone_time' = time
            /\ time = h_step_begin.time + h_loop_exit)
      /\ (pc = "update_solutions" /\ "transport" \in h_transitions =>
            /\ \A i \in Nodes : old_nodal_biomass_concentration'[i] = ConfiguredSeed
            /\ time_step' = MinTimeStep)
    ]_vars

\* C6 witness: a time step in which the switch to transport fired has been
\* committed over a biomass field that was not the seed
TransportSwitchSeedsBiomassWitness ==
  /\ pc = "timestep_loop"
  /\ "transport" \in h_transitions
  /\ parameters.initial_state = "dry"
  /\ old_nodal_biomass_concentration[1] = old_nodal_biomass_concentration[2]

\* C7: after the time-step update of a committed step (test_transport
\* false) the step size is at least 1, equals 1 while drying or saturating
\* and is at most 60 while transporting.
TimeStepWithinPhaseBounds ==
  (pc = "update_solutions" /\ test_transport = FALSE) =>
     /\ time_step >= TimeScale
     /\ (transient_drying = TRUE \/ transient_saturation = TRUE => time_step = TimeScale)
     /\ (transient_transport = TRUE => time_step <= 60 * TimeScale)

\* C7 witness: the update has cut a larger step size down to the transport
\* ceiling
TimeStepWithinPhaseBoundsWitness ==
  /\ pc = "update_solutions"
  /\ test_transport = FALSE
  /\ transient_transport = TRUE
  /\ h_loop_exit > 60 * TimeScale
  /\ time_step = 60 * TimeScale

\* the step size C8 describes: the minimum after a phase switch, else twice
\* the loop's step size after fewer than 15 passes, else the loop's step
\* size; then held within [1, 1] outside transport and [1, 60] in transport
DescribedStepSize ==
  LET adapted == IF h_transitions # {} THEN TimeScale
                 ELSE IF h_passes < 15 THEN 2 * h_loop_exit
                 ELSE h_loop_exit
      ceiling == IF transient_transport = TRUE THEN 60 * TimeScale ELSE TimeScale
  IN IF adapted < TimeScale THEN TimeScale
     ELSE IF adapted > ceiling THEN ceiling
     ELSE adapted

\* where run() stands between the start of a time step and its update
BeforeStepUpdate ==
  pc \in {"picard", "advance_time", "phase_drying", "phase_saturation", "output",
          "update_timestep"}

\* C8 as stated: the time-step adaptation runs exactly once per committed
\* step and never inside the Picard loop, and gives the minimum after a
\* phase switch, twice the step size after fewer than 15 passes, the same
\* step size otherwise (before clamping).
StepUpdateOncePerStep ==
  /\ (BeforeStepUpdate => h_updates = 0)
  /\ (pc = "update_solutions" => h_updates = 1 /\ time_step = DescribedStepSize)

\* C8 amended: with test_transport false, the time-step adaptation runs
\* exactly once per committed step and never inside the Picard loop, and
\* gives the minimum after a phase switch, twice the step size after fewer
\* than 15 passes, the same step size otherwise (before clamping).
StepUpdateOncePerStepUnlessTesting ==
  test_transport = FALSE =>
    /\ (BeforeStepUpdate => h_updates = 0)
    /\ (pc = "update_solutions" => h_updates = 1 /\ time_step = DescribedStepSize)

\* C8 witness: a transport step that stalled and then converged within a
\* few passes of the restart has been updated without doubling
StepUpdateOncePerStepWitness ==
  /\ pc = "update_solutions"
  /\ test_transport = FALSE
  /\ h_transitions = {}
  /\ h_stalls > 0
  /\ iteration < 15
  /\ time_step = h_loop_exit
  /\ time_step > TimeScale

\* C9: with test_transport false a pass leaves the Picard loop if and only
\* if its flow error is below 1e-8, its transport error is at most 1e-3
\* (which holds whenever the transport equation is not active) and a pass
\* has already been run since the loop was (re)started.
PicardExitCondition ==
  [][ pc = "picard" /\ h_passes' = h_passes + 1 /\ test_transport = FALSE =>
        /\ (pc' = "advance_time") =
             (/\ FracLess(relative_error_flow', 1, 100000000)
              /\ FracLeq(relative_error_transport', 1, 1000)
              /\ iteration' - 1 >= 1)
        /\ (pc' = "advance_time") = (remain_in_loop' = FALSE)
        /\ (~transport_equation_active => FracLeq(relative_error_transport', 1, 1000))
    ]_vars

\* C9 witness: the loop has been left in the transport phase with the
\* transport equation solved
PicardExitConditionWitness ==
  /\ pc = "advance_time"
  /\ test_transport = FALSE
  /\ transport_equation_active
  /\ h_stalls > 0

\* C10: a stall (iteration count 40 in the transport phase) halves the step
\* size once, restarts the iteration count and the error measures, and
\* continues the same time step with nothing committed and no time
\* advance; after k stalls the step size is the step's starting size
\* divided by 2^k.
StallRecoveryHalves ==
  [][ pc = "picard" /\ h_passes' = h_passes + 1 =>
        /\ IF transient_transport = TRUE /\ iteration = 40
           THEN /\ 2 * time_step' = time_step
                /\ h_stalls' = h_stalls + 1
                /\ iteration' = 1
                /\ (test_transport = TRUE => relative_error_flow' = Frac(1000, 1))
                /\ (~transport_equation_active => relative_error_transport' = Frac(0, 1))
           ELSE time_step' = time_step /\ h_stalls' = h_stalls
        /\ (2 ^ h_stalls') * time_step' = h_step_begin.time_step
        /\ time' = h_step_begin.time
        /\ timestep_number' = h_step_begin.timestep_number
        /\ old_vars' = old_vars
    ]_vars

\* C10 witness: a time step of the transport phase has left the loop after
\* a stall
StallRecoveryHalvesWitness ==
  /\ pc = "advance_time"
  /\ transient_transport = TRUE
  /\ h_stalls > 0
  /\ 2 * time_step = h_step_begin.time_step

NoRefinementInDryingStep ==
  (pc \notin {"initial_condition", "aborted"} /\ h_step_begin.drying = TRUE)
    => h_refinements = 0

\* C13: the cumulative solute totals (cumulative flow at top and bottom,
\* nutrients resident in the domain) are left alone by every pass of the
\* loop, stall restarts included; the one step of the run that changes them
\* follows the loop and advances them with the step's final step size, so
\* that at the commit each total is its value at the step's start plus one
\* increment.
CumulativeTotalsOncePerStep ==
  [][ /\ (pc = "picard" /\ h_passes' = h_passes + 1 =>
            cumulative_vars' = cumulative_vars)
      /\ (pc = "advance_time" /\ pc' # "aborted" =>
            /\ cumulative_flow_at_top' =
                 cumulative_flow_at_top + nutrient_flow_at_top * h_loop_exit
            /\ cumulative_flow_at_bottom' =
                 cumulative_flow_at_bottom + nutrient_flow_at_bottom * h_loop_exit
            /\ nutrients_in_domain_previous' = nutrients_in_domain_current)
      /\ (cumulative_vars' # cumulative_vars /\ pc' # "aborted" => pc = "advance_time")
      /\ (pc = "update_solutions" =>
            /\ cumulative_flow_at_top =
                 h_step_begin.cumulative_flow_at_top + nutrient_flow_at_top * h_loop_exit
            /\ cumulative_flow_at_bottom =
                 h_step_begin.cumulative_flow_at_bottom
                   + nutrient_flow_at_bottom * h_loop_exit
            /\ nutrients_in_domain_previous = nutrients_in_domain_current)
    ]_vars

\* C13 witness: a step of the transport phase whose loop restarted after a
\* stall reaches its commit with both totals advanced
CumulativeTotalsOncePerStepWitness ==
  /\ pc = "update_solutions"
  /\ h_stalls > 0
  /\ h_loop_exit # h_step_begin.time_step
  /\ cumulative_flow_at_top # h_step_begin.cumulative_flow_at_top
  /\ cumulative_flow_at_bottom # h_step_begin.cumulative_flow_at_bottom
  /\ nutrients_in_domain_previous # 0

\* the configurations and inputs whose first use raises a fatal error: an
\* initial state the constructor does not know, a resume file that cannot be
\* opened, a hydraulic or permeability model calculate_mass_balance_ratio
\* cannot evaluate, a moisture transport equation assemble_system_flow does
\* not know
FatalFromTheStart ==
  \/ parameters.initial_state \notin InitialStates
  \/ /\ parameters.initial_state \in ResumedStates
     /\ \E f \in CheckpointFields : checkpoint_files[f] = "absent"
  \/ get_specific_moisture_capacity_error # "none"
  \/ get_hydraulic_conductivity_error(parameters.relative_permeability_model) # "none"
  \/ get_moisture_content_total_error # "none"
  \/ flow_equation_active /\ assemble_system_flow_error # "none"

\* the state of main with respect to errors: an error has been thrown
\* exactly when the run is aborted, the aborted run has status 1, status 0 is
\* the status of a run whose time loop ended without error, and a run that
\* is fatal from the start never completes a pass
ErrorState ==
  /\ (thrown # "none") = (pc = "aborted")
  /\ (pc = "aborted" => exit_status = "1")
  /\ (exit_status = "0" => pc = "finished" /\ thrown = "none")
  /\ (exit_status = "none") = (pc \notin {"aborted", "finished"})
  /\ (FatalFromTheStart => h_passes = 0 /\ time = 0 /\ exit_status # "0")

\* C14: every fatal error (unknown hydraulic or permeability model or
\* moisture transport equation, bad velocity or Peclet number, missing
\* checkpoint, invalid initial state, linear solver failure) reaches main,
\* which returns a non-zero status; after the error the run takes no further
\* step: no pass, no commit, no mesh adaptation.
FatalErrorEndsRun ==
  []ErrorState /\ [][pc # "aborted"]_vars

\* C14 witness: a run is aborted by a solver failure, main has returned 1
FatalErrorEndsRunWitness ==
  /\ pc = "aborted"
  /\ exit_status = "1"
  /\ thrown = "SolverControl::NoConvergence"
  /\ ~FatalFromTheStart

\* C15: a run resumed from a checkpoint ("dry", "saturated", "final") gets
\* past start-up only if each of its three files was there and was consumed
\* to its end; otherwise it fails before the first time step (refuted: data
\* left behind the block goes unnoticed, the test after close() cannot fire).
CheckpointReadOrFatal ==
  (parameters.initial_state \in ResumedStates /\ pc \notin {"initial_condition", "aborted"})
    => \A f \in CheckpointFields : checkpoint_files[f] = "complete"

\* the member functions that evaluate the van Genuchten retention curve
RetentionFunctions ==
  {"get_effective_total_saturation", "get_actual_total_saturation",
   "get_moisture_content_total", "get_effective_free_saturation",
   "get_moisture_content_free"}

\* C16: get_effective_total_saturation, and with it
\* get_actual_total_saturation, get_moisture_content_total,
\* get_effective_free_saturation and get_moisture_content_free, throws with
\* the "Equations ... not implemented" diagnostic for every family other
\* than van_genuchten_1980, the empirical haverkamp_et_al_1977 included, and
\* returns for van_genuchten_1980; get_specific_moisture_capacity throws
\* only when the family is neither of the two.
UnsupportedFamilyFails ==
  /\ call.function \in RetentionFunctions =>
       IF parameters.hydraulic_properties = "van_genuchten_1980"
       THEN returned.thrown = "none"
       ELSE returned.thrown = "throw -1" /\ returned.diagnostic = EquationsNotImplemented
  /\ call.function = "get_specific_moisture_capacity" =>
       IF parameters.hydraulic_properties \in {"van_genuchten_1980", "haverkamp_et_al_1977"}
       THEN returned.thrown = "none"
       ELSE returned.thrown = "throw -1" /\ returned.diagnostic = EquationsNotImplemented

\* C16 witness: under the empirical family a moisture content has thrown
UnsupportedFamilyFailsWitness ==
  /\ parameters.hydraulic_properties = "haverkamp_et_al_1977"
  /\ call.function = "get_moisture_content_free"
  /\ returned.thrown = "throw -1"

\* the value get_hydraulic_conductivity returned is the value it returns for
\* every head of the same magnitude, every biomass and every model name
DependsOnHeadMagnitudeOnly ==
  \A h \in PressureHeads, b \in BiomassConcentrations, d \in BiomassDryDensities,
     model \in PermeabilityModelNames :
     Abs(h) = Abs(call.pressure_head) =>
       get_hydraulic_conductivity(h, b, d, model) = returned.value

\* C17 as stated: get_hydraulic_conductivity throws with the "Relative
\* permeability model not implemented" diagnostic for every model name
\* other than the four supported, whatever the family; for the empirical
\* family its result depends on |pressure_head| only (refuted: the empirical
\* branch returns without looking at the model name, and an unknown family
\* throws with the diagnostic of the family).
UnknownPermeabilityModelFails ==
  call.function = "get_hydraulic_conductivity" =>
    /\ call.relative_permeability_model \notin PermeabilityModels =>
         /\ returned.thrown = "throw -1"
         /\ returned.diagnostic = PermeabilityModelNotImplemented
    /\ (parameters.hydraulic_properties = "haverkamp_et_al_1977"
          /\ returned.thrown = "none") => DependsOnHeadMagnitudeOnly

\* C17 amended: under van_genuchten_1980 get_hydraulic_conductivity throws
\* with the "Relative permeability model not implemented" diagnostic exactly
\* for the model names other than the four supported; under
\* haverkamp_et_al_1977 it never throws, whatever the model name, and its
\* result depends on |pressure_head| only; under any other family it throws
\* with the "Equations ... not implemented" diagnostic whatever the name.
UnknownPermeabilityModelFailsUnderVanGenuchten ==
  call.function = "get_hydraulic_conductivity" =>
    IF parameters.hydraulic_properties = "van_genuchten_1980"
    THEN IF call.relative_permeability_model \in PermeabilityModels
         THEN returned.thrown = "none"
         ELSE /\ returned.thrown = "throw -1"
              /\ returned.diagnostic = PermeabilityModelNotImplemented
    ELSE IF parameters.hydraulic_properties = "haverkamp_et_al_1977"
    THEN returned.thrown = "none" /\ DependsOnHeadMagnitudeOnly
    ELSE /\ returned.thrown = "throw -1"
         /\ returned.diagnostic = EquationsNotImplemented

\* C17 witness: under the empirical family a call with an unknown model name
\* and a positive head has returned a conductivity below the saturated one,
\* which is not the conductivity of a head of another magnitude
UnknownPermeabilityModelFailsWitness ==
  /\ parameters.hydraulic_properties = "haverkamp_et_al_1977"
  /\ call.function = "get_hydraulic_conductivity"
  /\ call.relative_permeability_model \notin PermeabilityModels
  /\ call.pressure_head = 5000
  /\ returned.thrown = "none"
  /\ returned.value < parameters.saturated_hydraulic_conductivity
  /\ returned.value # get_hydraulic_conductivity(-10000, 0, 4000, "soleimani")

\* C18: with 0 <= residual < saturated moisture content and a biomass
\* concentration at or above the dry density,
\* get_effective_biomass_saturation returns exactly 1 and, under
\* van_genuchten_1980, get_effective_free_saturation returns exactly 0 for
\* every head.
FullBiomassLeavesNoFreeSaturation ==
  (/\ 0 <= parameters.moisture_content_residual
   /\ parameters.moisture_content_residual < parameters.moisture_content_saturation
   /\ call.biomass_concentration >= call.biomass_dry_density)
    => /\ call.function = "get_effective_biomass_saturation" =>
            returned.thrown = "none" /\ returned.value = Unit
       /\ (call.function = "get_effective_free_saturation"
             /\ parameters.hydraulic_properties = "van_genuchten_1980") =>
            returned.thrown = "none" /\ returned.value = 0

\* C18 witness: under van_genuchten_1980 with a residual moisture content of
\* zero, the free saturation of a saturated head has been computed for a
\* biomass concentration equal to the dry density
FullBiomassLeavesNoFreeSaturationWitness ==
  /\ parameters.hydraulic_properties = "van_genuchten_1980"
  /\ parameters.moisture_content_residual = 0
  /\ call.function = "get_effective_free_saturation"
  /\ call.biomass_concentration = call.biomass_dry_density
  /\ call.biomass_dry_density > 0
  /\ call.pressure_head = 0
  /\ returned = [thrown |-> "none", diagnostic |-> "none", value |-> 0]

\* C19: a pass in which both equations are active recomputes the
\* constitutive fields and the biomass, assembles the flow system, solves it,
\* then assembles the transport system and solves it, and the transport
\* system is assembled from the pressure iterate that pass's flow solve
\* produced (refuted: both systems are assembled before either is solved, and
\* the transport assembly reads the iterate of the pass before).
TransportAssembledAfterFlowSolve ==
  [][ (pc = "picard" /\ h_passes' = h_passes + 1
         /\ flow_equation_active /\ transport_equation_active) =>
        /\ h_calls' = <<"calculate_mass_balance_ratio", "assemble_system_flow",
                       "solve_system_flow", "assemble_system_transport",
                       "solve_system_transport">>
        /\ assemble_system_transport_pressure = solution_flow_new_iteration'
    ]_vars

\* C20: the biomass a pass computes is a function of the previous time
\* level's pressure, substrate and biomass and of the step size alone: it is
\* the Monod update of the old fields over the pass's step size (zero while
\* drying), and a pass that follows another pass of the same time step with
\* the same step size computes the biomass that pass computed.
BiomassUpdateFromPreviousLevel ==
  [][ (pc = "picard" /\ h_passes' = h_passes + 1) =>
        /\ new_nodal_biomass_concentration' =
             [i \in Nodes |->
                IF transient_drying = TRUE THEN 0
                ELSE biomass_update(old_solution_flow[i], old_solution_transport[i],
                                    old_nodal_biomass_concentration[i], time_step')]
        /\ (h_passes >= 1 /\ time_step' = time_step) =>
             new_nodal_biomass_concentration' = new_nodal_biomass_concentration
    ]_vars

\* C20 witness: a third pass of a step of the transport phase is due, the
\* biomass has grown or decayed from the old level, and the pressure and
\* substrate iterates have moved away from the old level
BiomassUpdateFromPreviousLevelWitness ==
  /\ pc = "picard"
  /\ h_passes >= 2
  /\ transient_transport = TRUE
  /\ \E i \in Nodes : new_nodal_biomass_concentration[i] > 0
  /\ new_nodal_biomass_concentration # old_nodal_biomass_concentration
  /\ solution_transport # old_solution_transport
  /\ solution_flow_old_iteration # old_solution_flow

\* C21: the mesh is adapted exactly once per time step, at the head of the
\* step before its first Picard pass, never inside the Picard loop and never
\* after the commit; the error indicator is the transport one if and only if
\* the phase is transport when the step begins, the flow one otherwise.
MeshAdaptedOncePerStep ==
  [][ /\ (pc = "timestep_loop" /\ pc' = "picard" =>
            /\ h_passes' = 0
            /\ h_refinements' = 1
            /\ refine_indicator' = IF transient_transport = TRUE THEN "transport"
                                   ELSE "flow")
      /\ (pc \in {"picard", "advance_time", "phase_drying", "phase_saturation", "output",
                  "update_timestep", "update_solutions"} /\ pc' # "aborted" =>
            /\ h_refinements = 1
            /\ h_refinements' = h_refinements
            /\ refine_indicator' = refine_indicator)
    ]_vars

\* C21 witness: a step that began in saturation and switched to transport is
\* about to be committed; its one adaptation used the flow indicator
MeshAdaptedOncePerStepWitness ==
  /\ pc = "update_solutions"
  /\ "transport" \in h_transitions
  /\ transient_transport = TRUE
  /\ h_passes > 1
  /\ h_refinements = 1
  /\ refine_indicator = "flow"

\* C21 witness of the other indicator: a step begun in transport
MeshAdaptedOncePerStepTransportCase ==
  /\ pc = "update_solutions"
  /\ h_transitions = {}
  /\ transient_transport = TRUE
  /\ refine_indicator = "transport"

\* the seventeen nodal vectors a grid carries
NodalVectors == {transfer_in_order[k] : k \in 1 .. Len(transfer_in_order)}

\* the state fits the grid: the sparsity pattern couples exactly the degrees
\* of freedom that share a cell, every nodal vector has one entry per degree
\* of freedom, and the multiplicity map counts, for the vertices of the grid
\* and no others, the cells of this grid alone
FitsTheGrid ==
  LET n == Len(triangulation)
  IN /\ sparsity_pattern \subseteq (1 .. n) \X (1 .. n)
     /\ \A i, j \in 1 .. n : (<<i, j>> \in sparsity_pattern) <=> (Abs(i - j) <= 1)
     /\ \A name \in NodalVectors : Len(field(name)) = n
     /\ DOMAIN repeated_points = vertices(triangulation)
     /\ \A i \in 1 .. n : repeated_points[triangulation[i]] = IF i \in {1, n} THEN 1 ELSE 2

\* C22: when refine_grid() returns, the sparsity pattern is the one of the
\* new degrees of freedom, every nodal vector has the new length and holds
\* the transferred image of its own values before the adaptation (not the
\* zeros of the re-setup, not another vector's values), and the
\* node-multiplicity map counts the new grid only.
StateFollowsTheMesh ==
  [][ (pc = "refine_grid" /\ h_refinements' = h_refinements + 1) =>
        /\ FitsTheGrid'
        /\ \A name \in NodalVectors :
             /\ field(name)' = interpolate(field(name), triangulation, triangulation')
             /\ \E i \in 1 .. Len(triangulation') : field(name)'[i] # 0
             /\ \A other \in NodalVectors \ {name} : field(name)' # field(other)'
    ]_vars

\* C22 witness: three adaptations have been run, the grid they left has the
\* vertex a bisection created, and there the vectors of the two moisture
\* contents and of the two iterates differ and the old pressure is the mean
\* of the values at the two ends
StateFollowsTheMeshWitness ==
  /\ pc = "refine_grid"
  /\ h_refinements = MaxRefinements
  /\ triangulation = <<0, 2, 4>>
  /\ DOMAIN repeated_points = {0, 2, 4}
  /\ old_nodal_free_moisture_content[2] # old_nodal_total_moisture_content[2]
  /\ solution_flow_new_iteration[2] # solution_flow_old_iteration[2]
  /\ old_solution_flow[2] = 100 + (old_solution_flow[1] - 100 + old_solution_flow[3] - 100) \div 2

\* the arguments of the observed call, as saturations
CallTotalSaturation == get_effective_total_saturation(call.pressure_head)
CallBiomassSaturation ==
  get_effective_biomass_saturation(call.biomass_concentration, call.biomass_dry_density)

\* C23: under the van Genuchten family the conductivity of the "soleimani"
\* model is the saturated conductivity times the relative-permeability
\* formula evaluated at the larger of the effective total and the effective
\* biomass saturation; so it is exactly 0 whenever the effective biomass
\* saturation is at least the effective total saturation.
ConductivityOnRaisedSaturation ==
  ( /\ call.function = "get_hydraulic_conductivity"
    /\ call.relative_permeability_model = "soleimani"
    /\ type_of_hydraulic_properties = "van_genuchten_1980" ) =>
      LET raised == IF CallBiomassSaturation > CallTotalSaturation
                    THEN CallBiomassSaturation ELSE CallTotalSaturation
      IN /\ returned.thrown = "none"
         /\ returned.value =
              (parameters.saturated_hydraulic_conductivity
                 * ((sqrt_fixed(raised)
                       * square_fixed(mualem_term(CallBiomassSaturation)
                                        - mualem_term(raised))) \div Unit)) \div Unit
         /\ (CallBiomassSaturation >= CallTotalSaturation => returned.value = 0)

\* C23 witness: a call whose biomass fills part of the pore space and more
\* than the water the head holds has returned 0
ConductivityOnRaisedSaturationWitness ==
  /\ call.function = "get_hydraulic_conductivity"
  /\ call.relative_permeability_model = "soleimani"
  /\ type_of_hydraulic_properties = "van_genuchten_1980"
  /\ CallBiomassSaturation > CallTotalSaturation
  /\ CallBiomassSaturation < Unit
  /\ CallTotalSaturation > 0
  /\ returned.thrown = "none"
  /\ returned.value = 0

\* C23 witness of the other side: less biomass than water, and a
\* conductivity above 0
ConductivityOnRaisedSaturationPositiveCase ==
  /\ call.function = "get_hydraulic_conductivity"
  /\ call.relative_permeability_model = "soleimani"
  /\ type_of_hydraulic_properties = "van_genuchten_1980"
  /\ 0 < CallBiomassSaturation
  /\ CallBiomassSaturation < CallTotalSaturation
  /\ returned.value > 0

\* C24: in an assembled cell, after the thresholding either both velocities
\* are zero, and then Peclet, beta and tau are 0, or both have a norm of at
\* least 1e-6; a new velocity under 1e-6 zeroes the old velocity too, and an
\* old velocity under 1e-6 beside a new one that is not is replaced by the
\* new velocity.
VelocitiesThresholdedTogether ==
  (call.function = "assemble_system_transport" /\ returned.thrown = "none") =>
     LET cell == returned.value
         before_new == call.new_velocity.value
         before_old == call.old_velocity.value
     IN /\ cell.new_velocity.class = "finite" /\ cell.old_velocity.class = "finite"
        /\ \/ /\ cell.new_velocity.value = 0 /\ cell.old_velocity.value = 0
              /\ cell.Peclet = 0 /\ cell.beta = 0 /\ cell.tau = 0
           \/ /\ Abs(cell.new_velocity.value) >= NegligibleVelocity
              /\ Abs(cell.old_velocity.value) >= NegligibleVelocity
        /\ (Abs(before_new) < NegligibleVelocity =>
              cell.new_velocity.value = 0 /\ cell.old_velocity.value = 0)
        /\ (Abs(before_new) >= NegligibleVelocity =>
              /\ cell.new_velocity.value = before_new
              /\ cell.old_velocity.value = IF Abs(before_old) < NegligibleVelocity
                                           THEN before_new ELSE before_old)

\* C24 witness: a cell whose old velocity was negligible and not zero beside
\* a new one that was not has been assembled with a stabilisation
VelocitiesThresholdedTogetherWitness ==
  /\ call.function = "assemble_system_transport"
  /\ returned.thrown = "none"
  /\ call.new_velocity = finite(-20)
  /\ call.old_velocity = finite(5)
  /\ returned.value.old_velocity = finite(-20)
  /\ returned.value.tau > 0

\* C24 witness of the zeroing: a new velocity just under the threshold
\* beside an old one above it
VelocitiesThresholdedTogetherZeroCase ==
  /\ call.function = "assemble_system_transport"
  /\ returned.thrown = "none"
  /\ call.new_velocity = finite(9)
  /\ call.old_velocity = finite(20)
  /\ returned.value.old_velocity = finite(0)
  /\ returned.value.Peclet = 0

\* C24, the throws: a NaN or infinite velocity ends the assembly
VelocitiesThresholdedTogetherThrowCase ==
  /\ call.function = "assemble_system_transport"
  /\ call.new_velocity = finite(20)
  /\ call.old_velocity = NaN
  /\ returned.thrown = "throw -1"

\* C25: a committed time step performs at most one phase switch: a step
\* that begins in the drying phase never ends in the transport phase.
AtMostOneTransitionPerStep ==
  pc \notin {"initial_condition", "aborted"} =>
    /\ Cardinality(h_transitions) <= 1
    /\ (h_step_begin.drying = TRUE /\ timestep_number = h_step_begin.timestep_number =>
          transient_transport = FALSE)

\* C26: the step size used to advance the simulation time at a commit
\* (time = time + time_step) lies within the bounds of the current phase:
\* at least 1 in every phase, exactly 1 in drying and saturation, at most 60
\* in transport, in every time step, the first one and those with a stall
\* recovery included.
StepSizeUsedWithinPhaseBounds ==
  pc = "advance_time" =>
     /\ time_step >= MinTimeStep
     /\ (transient_drying = TRUE \/ transient_saturation = TRUE => time_step = MinTimeStep)
     /\ (transient_transport = TRUE => time_step <= MaxTimeStepTransport)

\* C26, the stall: a transport step is about to advance the time by less
\* than 1 s after a stall recovery halved the step size
StepSizeUsedAfterStallCase ==
  /\ pc = "advance_time"
  /\ transient_transport = TRUE
  /\ test_transport = FALSE
  /\ h_stalls > 0
  /\ time_step < MinTimeStep

\* the convergence test as the state after a pass shows it: the errors of
\* that pass and the iteration count after its increment
PassConverged ==
  IF test_transport = FALSE
  THEN /\ FracLess(relative_error_flow, 1, 10 ^ 8)
       /\ FracLeq(relative_error_transport, 1, 1000)
       /\ iteration # 1
  ELSE FracLess(relative_error_transport, 3, 2 * 10 ^ 7)

PicardLoopHalvedInTransportCase ==
  /\ pc = "picard"
  /\ transient_transport = TRUE
  /\ h_stalls = 1
  /\ h_passes = PicardCap + 1
  /\ time_step * 2 = h_step_begin.time_step

\* a run under the empirical family has committed nothing: the clock stands
\* at 0, no pass has completed, and the run is at start-up, at the head of
\* its first time step, in its first pass or aborted
NothingCommitted ==
  /\ pc \in {"initial_condition", "timestep_loop", "picard", "aborted"}
  /\ time = 0
  /\ timestep_number <= 1
  /\ h_passes = 0

\* the first recomputation of the constitutive fields ends the run: at the
\* initial condition for "default" and "no_drying", in the first pass else
FirstRecomputationAborts ==
  [][ parameters.hydraulic_properties = "haverkamp_et_al_1977" =>
        /\ (pc = "initial_condition" /\ parameters.initial_state \in {"default", "no_drying"}
              => pc' = "aborted" /\ thrown' = "throw -1")
        /\ (pc = "picard" => pc' = "aborted" /\ thrown' = "throw -1")
    ]_vars

\* C28 as stated: a run under the empirical family (haverkamp_et_al_1977)
\* never commits a time step; the first recomputation of the constitutive
\* fields raises the unsupported-model error through the total moisture
\* content and the run aborts.
EmpiricalFamilyNeverCommits ==
  /\ [](parameters.hydraulic_properties = "haverkamp_et_al_1977" =>
          /\ NothingCommitted
          /\ (thrown = "throw -1" =>
                /\ returned.diagnostic = EquationsNotImplemented
                /\ call.function = "get_moisture_content_total"))
  /\ FirstRecomputationAborts

\* C28 amended: the same, the error being raised through the total moisture
\* content when the phase is drying and through the effective free
\* saturation of the biomass update, which comes first, when it is not.
EmpiricalFamilyNeverCommitsByPhase ==
  /\ [](parameters.hydraulic_properties = "haverkamp_et_al_1977" =>
          /\ NothingCommitted
          /\ (thrown = "throw -1" =>
                /\ returned.diagnostic = EquationsNotImplemented
                /\ call.function = IF transient_drying = TRUE
                                   THEN "get_moisture_content_total"
                                   ELSE "get_effective_free_saturation"))
  /\ FirstRecomputationAborts

\* C28 witness: a run resumed from the "saturated" checkpoint under the
\* empirical family has been aborted in its first pass
EmpiricalFamilyNeverCommitsWitness ==
  /\ parameters.hydraulic_properties = "haverkamp_et_al_1977"
  /\ parameters.initial_state = "saturated"
  /\ pc = "aborted"
  /\ thrown = "throw -1"
  /\ exit_status = "1"
  /\ call.function = "get_effective_free_saturation"

\* C28 witness of the drying side: the "default" run aborted at its initial
\* condition through the total moisture content
EmpiricalFamilyAbortsWhileDryingCase ==
  /\ parameters.hydraulic_properties = "haverkamp_et_al_1977"
  /\ parameters.initial_state = "default"
  /\ pc = "aborted"
  /\ call.function = "get_moisture_content_total"

\* C29: the biomass is inactive while drying: every Picard pass run in the
\* drying phase leaves the new biomass concentration and the new biomass
\* fraction at zero at every node, so a time step that began in drying and
\* is committed in drying or in saturation stores a zero old biomass, even
\* when the biomass read from the "final" checkpoint was not zero.
NoBiomassWhileDrying ==
  [][ /\ (pc = "picard" /\ transient_drying = TRUE /\ pc' # "aborted" =>
            \A i \in Nodes : /\ new_nodal_biomass_concentration'[i] = 0
                             /\ new_nodal_biomass_fraction'[i] = 0)
      /\ (pc = "update_solutions" /\ h_step_begin.drying = TRUE
            /\ transient_transport = FALSE =>
            \A i \in Nodes : /\ old_nodal_biomass_concentration'[i] = 0
                             /\ old_nodal_biomass_fraction'[i] = 0)
    ]_vars

\* C29 witness: a run resumed from the "final" checkpoint has committed a
\* step in the drying phase; the biomass it had read is gone
NoBiomassWhileDryingWitness ==
  /\ parameters.initial_state = "final"
  /\ pc = "timestep_loop"
  /\ timestep_number = 2
  /\ transient_drying = TRUE
  /\ h_step_begin.drying = TRUE
  /\ h_passes > 0
  /\ old_nodal_biomass_concentration = <<0, 0>>
  /\ \A b \in CheckpointBiomass : \E i \in Nodes : b[i] # 0

\* C29 witness of the switch: the step that left drying for saturation has
\* been committed with a zero biomass
NoBiomassAfterSwitchToSaturationCase ==
  /\ parameters.initial_state = "final"
  /\ pc = "timestep_loop"
  /\ h_transitions = {"saturation"}
  /\ transient_saturation = TRUE
  /\ old_nodal_biomass_concentration = <<0, 0>>

\* C30: the constructed object is in the phase its initial state names:
\* "default" and "final" in drying, "dry" and "no_drying" in saturation,
\* "saturated" in transport; any other initial state ends construction with
\* throw 1, main returns 1 and no step or pass is ever run; a run that
\* started in saturation is never in drying, a run that started in
\* transport is never in drying or saturation.
InitialPhaseByInitialState ==
  /\ (pc = "initial_condition" =>
        /\ (parameters.initial_state \in {"default", "final"} =>
              phase_vars = <<TRUE, FALSE, FALSE>>)
        /\ (parameters.initial_state \in {"dry", "no_drying"} =>
              phase_vars = <<FALSE, TRUE, FALSE>>)
        /\ (parameters.initial_state = "saturated" =>
              phase_vars = <<FALSE, FALSE, TRUE>>))
  /\ (parameters.initial_state
        \notin {"default", "final", "dry", "no_drying", "saturated"} =>
        /\ pc = "aborted"
        /\ thrown = "throw 1"
        /\ exit_status = "1"
        /\ timestep_number = 0
        /\ h_passes = 0)
  /\ (parameters.initial_state \in {"dry", "no_drying"} =>
        transient_drying = FALSE)
  /\ (parameters.initial_state = "saturated" =>
        /\ transient_drying = FALSE
        /\ transient_saturation = FALSE)

\* C30 witness: a run started in saturation has committed a step and moved
\* on to transport
InitialPhaseByInitialStateWitness ==
  /\ parameters.initial_state \in {"dry", "no_drying"}
  /\ pc = "timestep_loop"
  /\ timestep_number > 1
  /\ transient_transport = TRUE
  /\ transient_drying = FALSE

\* C30 witness of the rejected initial state: construction has thrown
InitialStateRejectedCase ==
  /\ parameters.initial_state = "flooded"
  /\ pc = "aborted"
  /\ thrown = "throw 1"

\* C30 witness of a run started in transport that has committed steps
StartedInTransportCase ==
  /\ parameters.initial_state = "saturated"
  /\ pc = "timestep_loop"
  /\ timestep_number > 1
  /\ transient_transport = TRUE
====
